---------------------------- MODULE Spec2Model ----------------------------
(***************************************************************************)
(* A model of the single-file B+Tree store of src/main.cpp and src/db.hpp: *)
(* the pager (file, page cache, free chain) and the tree operations that   *)
(* the executor runs on it.                                                *)
(*                                                                         *)
(* A page is modelled at the granularity of 32-bit words, because the code *)
(* reads and writes every field through byte offsets into one raw buffer:  *)
(* num_cells and num_keys share an offset, as do next_leaf and right_child,*)
(* the free-chain link overlays node_type/is_root/parent, and the cells of *)
(* a leaf and of an internal node overlay each other in the body.          *)
(*                                                                         *)
(* The page geometry is scaled down (PAGE_SIZE, COLUMN_USERNAME_SIZE,      *)
(* COLUMN_EMAIL_SIZE are bounds of the model); every derived constant      *)
(* keeps the formula db.hpp gives it, so the real geometry is the instance *)
(* PAGE_SIZE = 4096, COLUMN_USERNAME_SIZE = 32, COLUMN_EMAIL_SIZE = 255.   *)
(***************************************************************************)
EXTENDS Integers, Sequences, FiniteSets, TLC

(***************************************************************************)
(* Bounds of the model.                                                    *)
(***************************************************************************)
PAGE_SIZE == 54
COLUMN_USERNAME_SIZE == 4
COLUMN_EMAIL_SIZE == 0
MaxKey == 4
MaxVal == 2
MaxPages == 5
MaxCmds == 5
MaxWrites == 10
MaxBuilds == 3
MaxWideKey == 6
MaxWideWrites == 7
MaxFetchPages == 102
DeepLoad == 12
MaxDeepWrites == 3
TightCacheSize == 5
MaxChainPages == 3
MaxChainOps == 5
MaxFullWrites == 5

(***************************************************************************)
(* Program constants (db.hpp).                                             *)
(***************************************************************************)
DB_FILE_HEADER_SIZE == 8
TABLE_MAX_PAGES == 100000
PAGER_CACHE_SIZE == 100
ID_SIZE == 4
NODE_INTERNAL == 0
NODE_LEAF == 1
COMMON_NODE_HEADER_SIZE == 6

USERNAME_SIZE == COLUMN_USERNAME_SIZE
EMAIL_SIZE == COLUMN_EMAIL_SIZE
ROW_SIZE == ID_SIZE + USERNAME_SIZE + EMAIL_SIZE

LEAF_NODE_HEADER_SIZE == COMMON_NODE_HEADER_SIZE + ID_SIZE + ID_SIZE
LEAF_NODE_KEY_SIZE == ID_SIZE
LEAF_NODE_VALUE_SIZE == ROW_SIZE
LEAF_NODE_CELL_SIZE == LEAF_NODE_KEY_SIZE + LEAF_NODE_VALUE_SIZE
LEAF_NODE_SPACE_FOR_CELLS == PAGE_SIZE - LEAF_NODE_HEADER_SIZE
LEAF_NODE_MAX_CELLS == LEAF_NODE_SPACE_FOR_CELLS \div LEAF_NODE_CELL_SIZE
LEAF_NODE_MIN_CELLS == LEAF_NODE_MAX_CELLS \div 2

INTERNAL_NODE_HEADER_SIZE == COMMON_NODE_HEADER_SIZE + ID_SIZE + ID_SIZE
INTERNAL_NODE_KEY_SIZE == ID_SIZE
INTERNAL_NODE_CHILD_SIZE == ID_SIZE
INTERNAL_NODE_CELL_SIZE == INTERNAL_NODE_CHILD_SIZE + INTERNAL_NODE_KEY_SIZE
INTERNAL_NODE_SPACE_FOR_CELLS == PAGE_SIZE - INTERNAL_NODE_HEADER_SIZE
INTERNAL_NODE_MAX_KEYS == INTERNAL_NODE_SPACE_FOR_CELLS \div INTERNAL_NODE_CELL_SIZE
INTERNAL_NODE_MIN_KEYS == INTERNAL_NODE_MAX_KEYS \div 2

(***************************************************************************)
(* Word geometry of a page body (the bytes after the 14-byte header).      *)
(* A leaf cell is key | row.id | row.username | row.email; an internal     *)
(* cell is child | key.                                                    *)
(***************************************************************************)
WordsUp(bytes) == (bytes + ID_SIZE - 1) \div ID_SIZE
BodyWords == LEAF_NODE_SPACE_FOR_CELLS \div ID_SIZE
LeafCellWords == WordsUp(LEAF_NODE_CELL_SIZE)
InternalCellWords == WordsUp(INTERNAL_NODE_CELL_SIZE)

LeafCellsInPage == BodyWords \div LeafCellWords
InternalCellsInPage == BodyWords \div InternalCellWords

Keys == 1..MaxKey
Vals == 1..MaxVal

Min2(a, b) == IF a < b THEN a ELSE b
Max2(a, b) == IF a > b THEN a ELSE b

(***************************************************************************)
(* The state of the program.                                               *)
(*   page_cache     pager->page_cache: resident page number -> buffer      *)
(*   lru_map        pager->lru_map: for each resident page the iterator of *)
(*                  its element of lru_list                                *)
(*   lru_list       pager->lru_list: the resident pages, the most recently *)
(*                  fetched first                                          *)
(*   file           the page area of the database file, page -> contents   *)
(*   file_header    bytes 0..7 of the file: root_page_num, free_head       *)
(*   file_length    pager->file_length (bytes)                             *)
(*   num_pages, root_page_num, free_head   the Pager's fields              *)
(*   phase          "open" between new_table and free_table, "closed"      *)
(*                  after .exit, "fault" when a command dereferenced a     *)
(*                  null pointer, left its page buffer or an array, or     *)
(*                  never returns                                          *)
(*   ref            the rows stored by commands that returned Ok           *)
(*   gone           the keys a delete returned Ok for, no insert since     *)
(*   last           the last command and the result code it returned       *)
(*   cmds           how many commands that write were given so far         *)
(*   work           the workload of a client that builds a key set and     *)
(*                  tears it down again and again: the set, what it does   *)
(*                  now, and num_pages after each build it completed       *)
(***************************************************************************)
VARIABLES page_cache, lru_list, lru_map, file, file_header, file_length,
          num_pages, root_page_num, free_head, phase, ref, gone, last, cmds,
          work

vars == <<page_cache, lru_list, lru_map, file, file_header, file_length,
          num_pages, root_page_num, free_head, phase, ref, gone, last, cmds,
          work>>

ZeroPage ==
    [node_type |-> 0, is_root |-> 0, parent |-> 0, num |-> 0, link |-> 0,
     body |-> [w \in 1..BodyWords |-> 0]]


(***************************************************************************)
(* The operations are modelled as functions on a record of the in-memory   *)
(* and on-disk state, so that one command is one step:                     *)
(*   cache, file, file_length, num_pages, root_page_num, free_head         *)
(*   fault: "none", or why the running command cannot complete.            *)
(*   cache_size: the number of page buffers the pager keeps.               *)
(*   past_array: the word behind temp_keys (internal split).               *)
(***************************************************************************)
Cur ==
    [cache |-> page_cache, lru |-> lru_list, lru_map |-> lru_map,
     file |-> file, file_length |-> file_length,
     num_pages |-> num_pages, root_page_num |-> root_page_num,
     free_head |-> free_head, fault |-> "none", past_array |-> 0,
     cache_size |-> PAGER_CACHE_SIZE]

Fault(st, why) == IF st.fault = "none" THEN [st EXCEPT !.fault = why] ELSE st

Faulted(st) == st.fault # "none"

(* The buffer pager_get_page(p) returned; a zero page stands for "no buffer". *)
PageOf(st, p) == IF p \in DOMAIN st.cache THEN st.cache[p] ELSE ZeroPage

(* A pointer pager_get_page(p) returned is good while p is resident: the     *)
(* eviction of p deletes the buffer, and a read or write through the pointer *)
(* after that is a use of freed memory, where the command stops being the    *)
(* program's.                                                                *)
Held(st, p) ==
    IF Faulted(st) \/ p \in DOMAIN st.cache THEN st
    ELSE Fault(st, "evicted_buffer")

PutPage(st, p, pg) ==
    IF Faulted(st) THEN st
    ELSE IF p \notin DOMAIN st.cache THEN Fault(st, "evicted_buffer")
    ELSE [st EXCEPT !.cache[p] = pg]

get_page_file_offset(page_num) == DB_FILE_HEADER_SIZE + page_num * PAGE_SIZE

FilePages(st) == (st.file_length - DB_FILE_HEADER_SIZE) \div PAGE_SIZE

(* Writing a page at its offset; the file grows (with a hole of zeros) when  *)
(* the offset is past its end.                                               *)
WriteFilePage(f, page_num, pg) ==
    [q \in 0..Max2(page_num, Cardinality(DOMAIN f) - 1) |->
        IF q = page_num THEN pg
        ELSE IF q \in DOMAIN f THEN f[q] ELSE ZeroPage]

(* A flush that writes nothing.                                              *)
FlushNothing(st, page_num) == st

pager_flush(st, page_num) ==
    IF Faulted(st) \/ page_num \notin DOMAIN st.cache THEN st
    ELSE LET expected_length == get_page_file_offset(page_num) + PAGE_SIZE
         IN [st EXCEPT
               !.file = WriteFilePage(@, page_num, st.cache[page_num]),
               !.file_length = IF expected_length > @
                               THEN expected_length ELSE @]

(* lru_list without page_num.                                                *)
Unlisted(lru, page_num) == SelectSeq(lru, LAMBDA q : q # page_num)

(* lru_map holds iterators of lru_list; an iterator is kept as the position *)
(* of its element, the front being 1. Erasing an element moves the          *)
(* positions behind it one down, push_front moves every position one up.    *)
ListErase(lru, it) == SubSeq(lru, 1, it - 1) \o SubSeq(lru, it + 1, Len(lru))

(* The iterators after push_front(page_num) and lru_map[page_num] = begin(). *)
PushedFront(map, page_num) ==
    [q \in DOMAIN map \cup {page_num} |->
        IF q = page_num THEN 1 ELSE map[q] + 1]

(* The same after the element at it was erased before.                      *)
ErasedAndPushedFront(map, it, page_num) ==
    [q \in DOMAIN map |->
        IF q = page_num THEN 1
        ELSE IF map[q] > it THEN map[q] ELSE map[q] + 1]

(* A hit that lists the page in front and leaves its old element listed.    *)
ListedAgain(st, page_num) ==
    [st EXCEPT !.lru = <<page_num>> \o @,
               !.lru_map = PushedFront(@, page_num)]

(* "Cache hit: move to front": lru_list.erase(lru_map[page_num]),            *)
(* push_front(page_num), lru_map[page_num] = begin(). An iterator that is   *)
(* not of the list cannot be erased.                                        *)
MoveToFront(st, page_num) ==
    IF page_num \notin DOMAIN st.lru_map
          \/ st.lru_map[page_num] \notin 1..Len(st.lru)
    THEN Fault(st, "bad_iterator")
    ELSE [st EXCEPT
            !.lru = <<page_num>> \o ListErase(@, st.lru_map[page_num]),
            !.lru_map = ErasedAndPushedFront(@, @[page_num], page_num)]

(* A miss that evicts nothing.                                              *)
EvictNothing(st) == st

(* "Cache miss: evict if full": the page at the back of lru_list is flushed, *)
(* unlisted and erased from the cache.                                       *)
EvictIfFull(st) ==
    IF Cardinality(DOMAIN st.cache) < st.cache_size THEN st
    ELSE LET lru_page_num == st.lru[Len(st.lru)]
             flushed == pager_flush(st, lru_page_num)
         IN [flushed EXCEPT
               !.lru = SubSeq(@, 1, Len(@) - 1),
               !.lru_map = [q \in DOMAIN @ \ {lru_page_num} |-> @[q]],
               !.cache = [q \in DOMAIN @ \ {lru_page_num} |-> @[q]]]

(* pager_get_page. The code returns nullptr for page_num >= TABLE_MAX_PAGES; *)
(* a hit moves the page to the front of lru_list, a miss evicts the least    *)
(* recently used page when cache_size pages are resident, reads the page    *)
(* from the file when the file holds it and lists it in front.               *)
(* The sessions of commands over a pager of PAGER_CACHE_SIZE buffers stay    *)
(* below that many pages, so no buffer a caller still holds is evicted in    *)
(* them; see Held for the pager whose cache is scaled with the page.         *)
LoadPage(st, page_num) ==
    LET current_num_pages == FilePages(st)
        new_page == IF page_num < current_num_pages
                    THEN st.file[page_num] ELSE ZeroPage
    IN [st EXCEPT
          !.cache = (page_num :> new_page) @@ @,
          !.lru = <<page_num>> \o @,
          !.lru_map = PushedFront(@, page_num),
          !.num_pages = IF page_num >= @ THEN page_num + 1 ELSE @]

(* pager_get_page without its bounds check.                                 *)
GetPageUnchecked(st, page_num) ==
    IF Faulted(st) THEN st
    ELSE IF page_num \in DOMAIN st.cache
    THEN MoveToFront(st, page_num)
    ELSE CHOOSE r \in {LoadPage(s, page_num) : s \in {EvictIfFull(st)}} : TRUE

GetPageIn(st, page_num) ==
    IF Faulted(st) THEN st
    ELSE IF page_num >= TABLE_MAX_PAGES THEN Fault(st, "null_page")
    ELSE IF page_num \in DOMAIN st.cache
    THEN MoveToFront(st, page_num)
    ELSE CHOOSE r \in {LoadPage(s, page_num) : s \in {EvictIfFull(st)}} : TRUE

(* The pager in hand is one value: st stands for it once.                    *)
pager_get_page(st, page_num) ==
    CHOOSE r \in {GetPageIn(s, page_num) : s \in {st}} : TRUE

(* The first four bytes of a page as a little-endian u32, and a page with    *)
(* them overwritten: node_type, is_root and the low half of parent.          *)
First4(pg) ==
    (pg.node_type % 256) + 256 * (pg.is_root % 256)
        + 65536 * (pg.parent % 65536)

WithFirst4(pg, v) ==
    [pg EXCEPT !.node_type = v % 256,
               !.is_root = (v \div 256) % 256,
               !.parent = (@ \div 65536) * 65536 + ((v \div 65536) % 65536)]

(* get_unused_page_num: the state after the call and the page it returned.  *)
(* A free_head the pager refuses falls back to a new page.                  *)
get_unused_page_num(st) ==
    IF st.free_head = 0 \/ st.free_head >= TABLE_MAX_PAGES
    THEN [st |-> [st EXCEPT !.num_pages = @ + 1], page_num |-> st.num_pages]
    ELSE LET page_num == st.free_head
             (* with the page in hand: memcpy to free_head, memset         *)
             Reuse(s) ==
                 PutPage([s EXCEPT !.free_head = First4(PageOf(s, page_num))],
                         page_num, ZeroPage)
         IN [st |-> Reuse(pager_get_page(st, page_num)),
             page_num |-> page_num]

free_page(st, page_num) ==
    IF Faulted(st) \/ page_num >= TABLE_MAX_PAGES THEN st
    ELSE LET (* with the page in hand: memcpy from free_head, flush         *)
             Link(s) ==
                 pager_flush(
                    [PutPage(s, page_num,
                             WithFirst4(PageOf(s, page_num), s.free_head))
                       EXCEPT !.free_head = page_num],
                    page_num)
         IN Link(pager_get_page(st, page_num))


(***************************************************************************)
(* Node accessors (byte offsets of db.hpp, in words of the body).          *)
(***************************************************************************)
(* a - b in uint32_t. The wrapped difference of a < b is 2^32 + a - b; the   *)
(* model checker's integers end at 2^31 - 1, so it is kept as 2^30 + a - b,  *)
(* which is likewise above every count and index a page can hold.            *)
Sub32(a, b) == IF a >= b THEN a - b ELSE 2^30 + (a - b)

InBody(w) == w \in 1..BodyWords
RdW(pg, w) == IF InBody(w) THEN pg.body[w] ELSE 0
Touch(st, w) == IF InBody(w) THEN st ELSE Fault(st, "out_of_page")

WrW(st, p, w, v) ==
    IF ~InBody(w) THEN Fault(st, "out_of_page")
    ELSE PutPage(st, p, [PageOf(st, p) EXCEPT !.body[w] = v])

(* Stores to the header fields of page p.                                    *)
SetNum(st, p, n) == PutPage(st, p, [PageOf(st, p) EXCEPT !.num = n])
SetLink(st, p, l) == PutPage(st, p, [PageOf(st, p) EXCEPT !.link = l])
SetParent(st, p, parent_page_num) ==
    PutPage(st, p, [PageOf(st, p) EXCEPT !.parent = parent_page_num])
SetIsRoot(st, p, is_root) ==
    PutPage(st, p, [PageOf(st, p) EXCEPT !.is_root = is_root])
SetRootPageNum(st, p) ==
    IF Faulted(st) THEN st ELSE [st EXCEPT !.root_page_num = p]

get_leaf_node_cell(cell_num) == cell_num * LeafCellWords + 1
get_leaf_node_key(cell_num) == get_leaf_node_cell(cell_num)
get_leaf_node_value(cell_num) == get_leaf_node_cell(cell_num) + 1
get_internal_node_child(child_num) == child_num * InternalCellWords + 1
get_internal_node_key(key_num) == get_internal_node_child(key_num) + 1

(* get_internal_node_child(node, child_num) is nullptr when this holds.      *)
ChildIsNull(pg, child_num) == child_num > pg.num

get_node_type(pg) == pg.node_type
is_node_root(pg) == pg.is_root # 0

initialize_leaf_node(pg) ==
    [pg EXCEPT !.node_type = NODE_LEAF, !.is_root = 0, !.num = 0, !.link = 0]

initialize_internal_node(pg) ==
    [pg EXCEPT !.node_type = NODE_INTERNAL, !.is_root = 0, !.num = 0]

InitLeaf(st, p) == PutPage(st, p, initialize_leaf_node(PageOf(st, p)))
InitInternal(st, p) == PutPage(st, p, initialize_internal_node(PageOf(st, p)))

(* One leaf cell as words, and a copy of cell src of page q to cell dst of p. *)
CellWords(pg, cell_num) ==
    [j \in 0..(LeafCellWords - 1) |-> RdW(pg, get_leaf_node_cell(cell_num) + j)]

RECURSIVE WrWords(_, _, _, _, _)
WrWords(st, p, w, words, j) ==
    IF j >= LeafCellWords THEN st
    ELSE WrWords(WrW(st, p, w + j, words[j]), p, w, words, j + 1)

CopyCell(st, p, dst, q, src) ==
    LET s1 == Touch(st, get_leaf_node_cell(src) + LeafCellWords - 1)
    IN WrWords(s1, p, get_leaf_node_cell(dst), CellWords(PageOf(st, q), src), 0)

(* serialize_row / deserialize_row: id, then username; the email column of   *)
(* every row a client stores here is the empty string.                       *)
serialize_row(row) ==
    [j \in 0..(LeafCellWords - 2) |->
        IF j = 0 THEN row.id ELSE IF j = 1 THEN row.username ELSE 0]

deserialize_row(pg, cell_num) ==
    [id |-> RdW(pg, get_leaf_node_value(cell_num)),
     username |-> RdW(pg, get_leaf_node_value(cell_num) + 1)]

RECURSIVE get_node_max_key_rec(_, _, _)
get_node_max_key_rec(st, p, visited) ==
    LET pg == PageOf(st, p) IN
    IF Faulted(st) THEN [st |-> st, val |-> 0]
    ELSE IF get_node_type(pg) = NODE_LEAF
    THEN IF pg.num = 0 THEN [st |-> st, val |-> 0]
         ELSE [st |-> Touch(st, get_leaf_node_key(pg.num - 1)),
               val |-> RdW(pg, get_leaf_node_key(pg.num - 1))]
    ELSE LET right_child_page == pg.link IN
         IF right_child_page >= TABLE_MAX_PAGES THEN [st |-> st, val |-> 0]
         ELSE IF right_child_page \in visited
         THEN [st |-> Fault(st, "hang"), val |-> 0]
         ELSE get_node_max_key_rec(pager_get_page(st, right_child_page),
                                   right_child_page,
                                   visited \cup {right_child_page})

get_node_max_key(st, p) == get_node_max_key_rec(st, p, {p})

(***************************************************************************)
(* Search.                                                                 *)
(***************************************************************************)
RECURSIVE LeafBinarySearch(_, _, _, _)
LeafBinarySearch(pg, key, min_index, max_index) ==
    IF min_index = max_index
    THEN [cell_num |-> min_index, end_of_table |-> (min_index = pg.num),
          oob |-> FALSE]
    ELSE LET index == (min_index + max_index) \div 2
             key_at_index == RdW(pg, get_leaf_node_key(index))
         IN IF ~InBody(get_leaf_node_key(index))
            THEN [cell_num |-> 0, end_of_table |-> FALSE, oob |-> TRUE]
            ELSE IF key = key_at_index
            THEN [cell_num |-> index, end_of_table |-> FALSE, oob |-> FALSE]
            ELSE IF key < key_at_index
            THEN LeafBinarySearch(pg, key, min_index, index)
            ELSE LeafBinarySearch(pg, key, index + 1, max_index)

(* A cursor is page_num, cell_num, end_of_table.                             *)
leaf_node_find(st, page_num, key) ==
    LET At(s, r) ==
            [st |-> IF r.oob THEN Fault(s, "out_of_page") ELSE s,
             cursor |-> [page_num |-> page_num, cell_num |-> r.cell_num,
                         end_of_table |-> r.end_of_table]]
        Search(s) ==
            At(s, LeafBinarySearch(PageOf(s, page_num), key, 0,
                                   PageOf(s, page_num).num))
    IN Search(pager_get_page(st, page_num))

RECURSIVE InternalBinarySearch(_, _, _, _)
InternalBinarySearch(pg, key, min_index, max_index) ==
    IF min_index = max_index THEN [index |-> min_index, oob |-> FALSE]
    ELSE LET index == (min_index + max_index) \div 2
             key_to_compare == RdW(pg, get_internal_node_key(index))
         IN IF ~InBody(get_internal_node_key(index))
            THEN [index |-> 0, oob |-> TRUE]
            ELSE IF key <= key_to_compare
            THEN InternalBinarySearch(pg, key, min_index, index)
            ELSE InternalBinarySearch(pg, key, index + 1, max_index)

RECURSIVE table_find_rec(_, _, _, _)
table_find_rec(st, page_num, key, visited) ==
    LET pg == PageOf(st, page_num) IN
    IF Faulted(st)
    THEN [st |-> st, cursor |-> [page_num |-> 0, cell_num |-> 0,
                                 end_of_table |-> TRUE]]
    ELSE IF get_node_type(pg) # NODE_INTERNAL
    THEN leaf_node_find(st, page_num, key)
    ELSE LET Descend(s, next) ==
                 IF next \in visited
                 THEN table_find_rec(Fault(s, "hang"), next, key, visited)
                 ELSE table_find_rec(pager_get_page(s, next), next, key,
                                     visited \cup {next})
             Child(r) ==
                 Descend(IF r.oob \/ (r.index # pg.num
                                /\ ~InBody(get_internal_node_child(r.index)))
                         THEN Fault(st, "out_of_page") ELSE st,
                         IF r.index = pg.num THEN pg.link
                         ELSE RdW(pg, get_internal_node_child(r.index)))
         IN Child(InternalBinarySearch(pg, key, 0, pg.num))

table_find(st, key) ==
    table_find_rec(pager_get_page(st, st.root_page_num), st.root_page_num,
                   key, {st.root_page_num})

table_start(st) ==
    LET AtLeaf(s, cursor) ==
            [st |-> s,
             cursor |-> [cursor EXCEPT
                           !.end_of_table = (PageOf(s, cursor.page_num).num = 0)]]
        Start(r) == AtLeaf(pager_get_page(r.st, r.cursor.page_num), r.cursor)
    IN Start(table_find(st, 0))


(***************************************************************************)
(* Insertion.                                                              *)
(***************************************************************************)
(* memmove of the cells lo..hi of page p one cell to the right.            *)
RECURSIVE ShiftCellsRight(_, _, _, _)
ShiftCellsRight(st, p, hi, lo) ==
    IF hi < lo THEN st
    ELSE ShiftCellsRight(CopyCell(st, p, hi + 1, p, hi), p, hi - 1, lo)

WriteCell(st, p, cell_num, key, value) ==
    WrWords(st, p, get_leaf_node_cell(cell_num),
            [j \in 0..(LeafCellWords - 1) |->
                IF j = 0 THEN key ELSE serialize_row(value)[j - 1]], 0)

leaf_node_insert(st, cursor, key, value) ==
    LET p == cursor.page_num
        Place(s) ==
            LET num_cells == PageOf(s, p).num
                s2 == IF cursor.cell_num < num_cells
                      THEN ShiftCellsRight(s, p, num_cells - 1, cursor.cell_num)
                      ELSE s
            IN WriteCell(SetNum(s2, p, num_cells + 1), p, cursor.cell_num,
                         key, value)
    IN Place(pager_get_page(st, p))

(* create_new_root once get_unused_page_num has returned: the new root is    *)
(* initialised over the old root (left) and the new page (right).            *)
FillNewRoot(a, left_child_page_num, right_child_page_num) ==
    LET new_root_page_num == a.page_num
        Header(s) ==
            WrW(SetNum(SetIsRoot(InitInternal(s, new_root_page_num),
                                 new_root_page_num, 1),
                       new_root_page_num, 1),
                new_root_page_num, get_internal_node_child(0),
                left_child_page_num)
        Key(m) ==
            WrW(m.st, new_root_page_num, get_internal_node_key(0), m.val)
        Links(s) ==
            LET s1 == SetLink(s, new_root_page_num, right_child_page_num)
                s2 == SetParent(s1, left_child_page_num, new_root_page_num)
                s3 == SetParent(s2, right_child_page_num, new_root_page_num)
                s4 == SetRootPageNum(s3, new_root_page_num)
                s5 == SetIsRoot(s4, left_child_page_num, 0)
            IN SetIsRoot(s5, right_child_page_num, 0)
    IN IF ~Faulted(a.st) /\ new_root_page_num >= TABLE_MAX_PAGES
       THEN a.st   (* new_root == nullptr: return *)
       ELSE Links(Key(get_node_max_key(
                         Header(pager_get_page(a.st, new_root_page_num)),
                         left_child_page_num)))

create_new_root(st, right_child_page_num) ==
    FillNewRoot(
        get_unused_page_num(
            pager_get_page(pager_get_page(st, st.root_page_num),
                           right_child_page_num)),
        st.root_page_num, right_child_page_num)

(* The first index i in lo..n-1 with child_max_key < key[i], by the binary   *)
(* search of internal_node_insert.                                           *)
RECURSIVE InsertBinarySearch(_, _, _, _)
InsertBinarySearch(pg, child_max_key, min_index, max_index) ==
    IF min_index = max_index THEN [index |-> min_index, oob |-> FALSE]
    ELSE LET mid == (min_index + max_index) \div 2
             key_at_mid == RdW(pg, get_internal_node_key(mid))
         IN IF ~InBody(get_internal_node_key(mid))
            THEN [index |-> 0, oob |-> TRUE]
            ELSE IF child_max_key < key_at_mid
            THEN InsertBinarySearch(pg, child_max_key, min_index, mid)
            ELSE InsertBinarySearch(pg, child_max_key, mid + 1, max_index)

(* memcpy of the internal cell src of page p onto the cell dst.              *)
CopyInternalCell(st, p, dst, src) ==
    LET pg == PageOf(st, p)
        s1 == Touch(st, get_internal_node_key(src))
        s2 == WrW(s1, p, get_internal_node_child(dst),
                  RdW(pg, get_internal_node_child(src)))
    IN WrW(s2, p, get_internal_node_key(dst),
           RdW(pg, get_internal_node_key(src)))

RECURSIVE ShiftInternalRight(_, _, _, _)
ShiftInternalRight(st, p, i, index) ==
    IF i <= index THEN st
    ELSE ShiftInternalRight(CopyInternalCell(st, p, i, i - 1), p, i - 1, index)

(* The least i < n with child[i] = page_num in page pg, or -1.               *)
RECURSIVE ChildCellIndex(_, _, _, _)
ChildCellIndex(pg, page_num, i, n) ==
    IF i >= n THEN -1
    ELSE IF RdW(pg, get_internal_node_child(i)) = page_num THEN i
    ELSE ChildCellIndex(pg, page_num, i + 1, n)

(* "Update the old max key in the parent": with new_max = nm.val in hand,    *)
(* the parent is fetched and key[i] := new_max for the first cell i whose    *)
(* child is page_num.                                                        *)
UpdateParentKey(nm, parent_page_num, page_num) ==
    LET Set(s) ==
            LET parent == PageOf(s, parent_page_num)
                n == Min2(parent.num, InternalCellsInPage)
                i == ChildCellIndex(parent, page_num, 0, n)
            IN IF i >= 0
               THEN WrW(s, parent_page_num, get_internal_node_key(i), nm.val)
               ELSE IF parent.num > n THEN Fault(s, "out_of_page") ELSE s
    IN Set(pager_get_page(nm.st, parent_page_num))

(* "Update parent pointers for all children": the children in the cells      *)
(* i..n-1 of page p, each fetched and its parent set to new_parent.          *)
RECURSIVE ReparentCells(_, _, _, _, _)
ReparentCells(st, p, i, n, new_parent) ==
    IF i >= n \/ Faulted(st) THEN st
    ELSE LET child == RdW(PageOf(st, p), get_internal_node_child(i))
             s1 == pager_get_page(
                      Held(Touch(st, get_internal_node_child(i)), p), child)
         IN ReparentCells(SetParent(s1, child, new_parent), p, i + 1, n,
                          new_parent)

ReparentRightChild(st, p, new_parent) ==
    LET child == PageOf(st, p).link
    IN SetParent(pager_get_page(Held(st, p), child), child, new_parent)

(* pager_get_page of the page that cell i of page p names.                   *)
FetchChild(st, p, i) ==
    pager_get_page(Held(st, p), RdW(PageOf(st, p), get_internal_node_child(i)))

RECURSIVE WriteInternalCells(_, _, _, _, _, _, _)
WriteInternalCells(st, p, i, n, temp_children, temp_keys, from) ==
    IF i >= n THEN st
    ELSE LET s1 == WrW(st, p, get_internal_node_child(i), temp_children[from + i])
             s2 == WrW(s1, p, get_internal_node_key(i), temp_keys[from + i])
         IN WriteInternalCells(s2, p, i + 1, n, temp_children, temp_keys, from)

RECURSIVE internal_node_insert(_, _, _)
RECURSIVE internal_node_split_and_insert(_, _, _)

(* internal_node_insert when the parent has room: the child becomes the      *)
(* right child, or takes the cell index.                                     *)
InsertIntoParent(st, parent_page_num, child_page_num, child_max_key, index) ==
    LET parent == PageOf(st, parent_page_num)
        original_num_keys == parent.num
        right_child_page_num == parent.link
        AsRightChild(rm) ==
            SetNum(SetLink(WrW(rm.st, parent_page_num,
                               get_internal_node_key(original_num_keys),
                               rm.val),
                           parent_page_num, child_page_num),
                   parent_page_num, original_num_keys + 1)
        AtIndex(s) ==
            SetNum(WrW(WrW(ShiftInternalRight(s, parent_page_num,
                                              original_num_keys, index),
                           parent_page_num, get_internal_node_child(index),
                           child_page_num),
                       parent_page_num, get_internal_node_key(index),
                       child_max_key),
                   parent_page_num, original_num_keys + 1)
        Place(rm) ==
            IF child_max_key > rm.val
            THEN AsRightChild(
                    get_node_max_key(
                       WrW(rm.st, parent_page_num,
                           get_internal_node_child(original_num_keys),
                           right_child_page_num),
                       right_child_page_num))
            ELSE AtIndex(rm.st)
    IN Place(get_node_max_key(pager_get_page(st, right_child_page_num),
                              right_child_page_num))

(* internal_node_insert with child_max_key = m.val in hand.                  *)
InternalInsertAt(m, parent_page_num, child_page_num) ==
    LET parent == PageOf(m.st, parent_page_num)
        original_num_keys == parent.num
        b == InsertBinarySearch(parent, m.val, 0, original_num_keys)
    IN IF b.oob THEN Fault(m.st, "out_of_page")
       ELSE IF Faulted(m.st) THEN m.st
       ELSE IF original_num_keys >= INTERNAL_NODE_MAX_KEYS
       THEN internal_node_split_and_insert(m.st, parent_page_num,
                                           child_page_num)
       ELSE InsertIntoParent(m.st, parent_page_num, child_page_num, m.val,
                             b.index)

internal_node_insert(st, parent_page_num, child_page_num) ==
    InternalInsertAt(
        get_node_max_key(
            pager_get_page(pager_get_page(st, parent_page_num),
                           child_page_num),
            child_page_num),
        parent_page_num, child_page_num)

(* The end of internal_node_split_and_insert: a new root over the two        *)
(* halves, or the new node inserted into the parent of the old one.          *)
InternalSplitPropagate(st, parent_page_num, new_page_num) ==
    LET parent_page_num_for_insert == PageOf(st, parent_page_num).parent
    IN IF Faulted(st) THEN st
       ELSE IF is_node_root(PageOf(st, parent_page_num))
       THEN create_new_root(st, new_page_num)
       ELSE internal_node_insert(
               UpdateParentKey(get_node_max_key(st, parent_page_num),
                               parent_page_num_for_insert, parent_page_num),
               parent_page_num_for_insert, new_page_num)

(* The keys and children, with the new child among them (tk0 and tc0 are     *)
(* temp_keys[INTERNAL_NODE_MAX_KEYS + 1] and temp_children[.. + 2] as copied *)
(* from the old node), distributed over the old and the new node. The loop   *)
(* that fills the new node reads temp_keys[split_at + 1 + i] for             *)
(* i < new_num_keys, that is up to temp_keys[old_num_keys + 1]: one past the *)
(* array when the node was full. What it finds there is not the program's to *)
(* say: it is the word past_array of the state in hand.                      *)
InternalSplitDistribute(m, parent_page_num, child_page_num, new_page_num, old_num_keys, tk0, tc0) ==
    LET child_max_key == m.val
        less == {i \in 0..(old_num_keys - 1) : child_max_key < tk0[i]}
        insert_index == IF less = {} THEN old_num_keys
                        ELSE CHOOSE i \in less : \A j \in less : i <= j
        temp_keys == [i \in 0..(INTERNAL_NODE_MAX_KEYS + 1) |->
                        IF i > INTERNAL_NODE_MAX_KEYS THEN m.st.past_array
                        ELSE IF i = insert_index THEN child_max_key
                        ELSE IF i > insert_index /\ i <= old_num_keys
                        THEN tk0[i - 1] ELSE tk0[i]]
        temp_children == [i \in 0..(INTERNAL_NODE_MAX_KEYS + 1) |->
                        IF i = insert_index + 1 THEN child_page_num
                        ELSE IF i > insert_index + 1 /\ i <= old_num_keys + 1
                        THEN tc0[i - 1] ELSE tc0[i]]
        split_at == (old_num_keys + 1) \div 2
        new_num_keys == (old_num_keys + 1) - split_at
        OldNode(s) ==
            SetLink(WriteInternalCells(SetNum(s, parent_page_num, split_at),
                                       parent_page_num, 0, split_at,
                                       temp_children, temp_keys, 0),
                    parent_page_num, temp_children[split_at])
        NewNode(s) ==
            SetLink(WriteInternalCells(SetNum(s, new_page_num, new_num_keys),
                                       new_page_num, 0, new_num_keys,
                                       temp_children, temp_keys, split_at + 1),
                    new_page_num, temp_children[old_num_keys + 1])
        (* i = split_at first fetches the page named by cell split_at        *)
        OldChildren(s) ==
            ReparentRightChild(
                FetchChild(ReparentCells(s, parent_page_num, 0, split_at,
                                         parent_page_num),
                           parent_page_num, split_at),
                parent_page_num, parent_page_num)
        NewChildren(s) ==
            ReparentRightChild(
                ReparentCells(s, new_page_num, 0, new_num_keys, new_page_num),
                new_page_num, new_page_num)
        NewParent(s) ==
            SetParent(Held(s, parent_page_num), new_page_num,
                      PageOf(s, parent_page_num).parent)
    IN CHOOSE r \in {InternalSplitPropagate(s, parent_page_num, new_page_num) :
                      s \in {NewParent(NewChildren(OldChildren(NewNode(
                                 OldNode(m.st)))))}} : TRUE

(* internal_node_split_and_insert once get_unused_page_num has returned.     *)
InternalSplitInto(a, parent_page_num, child_page_num, old_num_keys) ==
    LET new_page_num == a.page_num
        s3 == InitInternal(pager_get_page(a.st, new_page_num), new_page_num)
        old_node == PageOf(s3, parent_page_num)
        tk0 == [i \in 0..INTERNAL_NODE_MAX_KEYS |->
                  IF i < old_num_keys
                  THEN RdW(old_node, get_internal_node_key(i)) ELSE 0]
        tc0 == [i \in 0..(INTERNAL_NODE_MAX_KEYS + 1) |->
                  IF i < old_num_keys
                  THEN RdW(old_node, get_internal_node_child(i))
                  ELSE IF i = old_num_keys THEN old_node.link ELSE 0]
    IN IF ~Faulted(a.st) /\ new_page_num >= TABLE_MAX_PAGES
       THEN a.st   (* new_node == nullptr: return *)
       ELSE InternalSplitDistribute(
               get_node_max_key(pager_get_page(s3, child_page_num),
                                child_page_num),
               parent_page_num, child_page_num, new_page_num, old_num_keys,
               tk0, tc0)

internal_node_split_and_insert(st, parent_page_num, child_page_num) ==
    LET s1 == pager_get_page(st, parent_page_num)
    IN IF Faulted(s1) THEN s1
       ELSE IF PageOf(s1, parent_page_num).num > INTERNAL_NODE_MAX_KEYS
       THEN Fault(s1, "out_of_page")
       ELSE InternalSplitInto(get_unused_page_num(s1), parent_page_num,
                              child_page_num, PageOf(s1, parent_page_num).num)


(* The cells split_at..num_cells-1 of the old leaf, moved to the new leaf,   *)
(* from the last one down.                                                   *)
RECURSIVE MoveUpperCells(_, _, _, _, _)
MoveUpperCells(st, old_page, new_page, i, split_at) ==
    IF i < split_at \/ Faulted(st) THEN st
    ELSE MoveUpperCells(CopyCell(st, new_page, i - split_at, old_page, i),
                        old_page, new_page, i - 1, split_at)

(* The end of the split proper: a new root over the two leaves, or the new   *)
(* leaf inserted into the parent of the old one.                             *)
LeafSplitPropagate(st, old_page, new_page_num) ==
    LET parent_page_num == PageOf(st, old_page).parent
    IN IF is_node_root(PageOf(st, old_page))
       THEN create_new_root(st, new_page_num)
       ELSE CHOOSE r \in {internal_node_insert(s, parent_page_num,
                                                 new_page_num) :
                          s \in {UpdateParentKey(get_node_max_key(st, old_page),
                                                 parent_page_num, old_page)}} :
               TRUE

(* A split that stores the row in the old leaf whatever its key.            *)
LeafSplitPlaceInOld(st, old_page, new_page_num, split_at, key, value) ==
    LET Insert(f) == leaf_node_insert(f.st, f.cursor, key, value)
    IN Insert(leaf_node_find(Touch(st, get_leaf_node_key(split_at - 1)),
                             old_page, key))

(* The row goes to the leaf that holds its key range.                        *)
LeafSplitPlace(st, old_page, new_page_num, split_at, key, value) ==
    LET target == IF key <= RdW(PageOf(st, old_page),
                                get_leaf_node_key(split_at - 1))
                  THEN old_page ELSE new_page_num
        Insert(f) == leaf_node_insert(f.st, f.cursor, key, value)
    IN Insert(leaf_node_find(Touch(st, get_leaf_node_key(split_at - 1)),
                             target, key))

(* leaf_node_split_and_insert once the new leaf is chained behind the old.   *)
LeafSplitMove(st, old_page, new_page_num, key, value) ==
    LET num_cells == PageOf(st, old_page).num
        split_at == (num_cells + 1) \div 2
        Cells(s) ==
            SetNum(SetNum(MoveUpperCells(s, old_page, new_page_num,
                                         num_cells - 1, split_at),
                          old_page, split_at),
                   new_page_num, num_cells - split_at)
        NewParent(s) == SetParent(s, new_page_num, PageOf(s, old_page).parent)
    IN CHOOSE r \in {LeafSplitPlace(s, old_page, new_page_num, split_at,
                                     key, value) :
                      s \in {LeafSplitPropagate(NewParent(Cells(st)), old_page,
                                                new_page_num)}} : TRUE

(* leaf_node_split_and_insert once get_unused_page_num has returned.         *)
LeafSplitInto(a, old_page, key, value) ==
    LET new_page_num == a.page_num
        Chain(s) ==
            SetLink(SetLink(s, new_page_num, PageOf(s, old_page).link),
                    old_page, new_page_num)
    IN IF ~Faulted(a.st) /\ new_page_num >= TABLE_MAX_PAGES
       THEN a.st   (* new_node == nullptr: return *)
       ELSE LeafSplitMove(
               Chain(InitLeaf(pager_get_page(a.st, new_page_num),
                              new_page_num)),
               old_page, new_page_num, key, value)

leaf_node_split_and_insert(st, cursor, key, value) ==
    LeafSplitInto(get_unused_page_num(pager_get_page(st, cursor.page_num)),
                  cursor.page_num, key, value)

(***************************************************************************)
(* The executor. A command returns the state it leaves and its result.     *)
(***************************************************************************)
find_key_location(st, key) ==
    LET In(s, cursor) ==
            LET node == PageOf(s, cursor.page_num)
                in_node == cursor.cell_num < node.num
            IN [st |-> IF in_node
                       THEN Touch(s, get_leaf_node_key(cursor.cell_num))
                       ELSE s,
                cursor |-> cursor,
                key_found |-> (in_node
                               /\ RdW(node, get_leaf_node_key(cursor.cell_num))
                                      = key)]
        At(r) == In(pager_get_page(r.st, r.cursor.page_num), r.cursor)
    IN At(table_find(st, key))

Result(st, res) == [st |-> st, result |-> res]

(* execute_insert once find_key_location has returned loc.                   *)
InsertAt(loc, row) ==
    IF Faulted(loc.st) THEN Result(loc.st, "fault")
    ELSE IF loc.key_found THEN Result(loc.st, "EXECUTE_DUPLICATE_KEY")
    ELSE IF PageOf(loc.st, loc.cursor.page_num).num >= LEAF_NODE_MAX_CELLS
    THEN Result(leaf_node_split_and_insert(loc.st, loc.cursor, row.id, row),
                "EXECUTE_SUCCESS")
    ELSE Result(leaf_node_insert(loc.st, loc.cursor, row.id, row),
                "EXECUTE_SUCCESS")

execute_insert(st, row) == InsertAt(find_key_location(st, row.id), row)

execute_find(st, key) ==
    LET At(loc) ==
            IF Faulted(loc.st)
            THEN [st |-> loc.st, result |-> "fault", row |-> <<>>]
            ELSE IF loc.key_found
            THEN [st |-> loc.st, result |-> "EXECUTE_SUCCESS",
                  row |-> deserialize_row(PageOf(loc.st, loc.cursor.page_num),
                                          loc.cursor.cell_num)]
            ELSE [st |-> loc.st, result |-> "EXECUTE_RECORD_NOT_FOUND",
                  row |-> <<>>]
    IN At(find_key_location(st, key))

execute_update(st, row) ==
    LET At(loc) ==
            LET p == loc.cursor.page_num
            IN IF Faulted(loc.st) THEN Result(loc.st, "fault")
               ELSE IF loc.key_found
               THEN Result(WrWords(loc.st, p,
                             get_leaf_node_cell(loc.cursor.cell_num),
                             [j \in 0..(LeafCellWords - 1) |->
                                IF j = 0
                                THEN RdW(PageOf(loc.st, p),
                                         get_leaf_node_key(loc.cursor.cell_num))
                                ELSE serialize_row(row)[j - 1]], 0),
                           "EXECUTE_SUCCESS")
               ELSE Result(loc.st, "EXECUTE_RECORD_NOT_FOUND")
    IN At(find_key_location(st, row.id))


(***************************************************************************)
(* Deletion.                                                               *)
(***************************************************************************)
(* memmove(dst, src, n * sizeof(uint32_t)) inside the body of page p.        *)
MemmoveWords(st, p, dst, src, n) ==
    IF n <= 0 THEN st
    ELSE IF ~InBody(dst + n - 1) \/ ~InBody(src + n - 1)
    THEN Fault(st, "out_of_page")
    ELSE LET pg == PageOf(st, p)
         IN PutPage(st, p,
               [pg EXCEPT !.body = [w \in 1..BodyWords |->
                    IF w >= dst /\ w < dst + n
                    THEN pg.body[src + (w - dst)] ELSE pg.body[w]]])

(* The cells lo..hi-1 of page p, each overwritten by its right neighbour.    *)
RECURSIVE ShiftCellsLeft(_, _, _, _)
ShiftCellsLeft(st, p, i, hi) ==
    IF i >= hi \/ Faulted(st) THEN st
    ELSE ShiftCellsLeft(CopyCell(st, p, i, p, i + 1), p, i + 1, hi)

(* The cells 0..n-1 of page q appended to page p from cell at.               *)
RECURSIVE AppendCells(_, _, _, _, _, _)
AppendCells(st, p, at, q, i, n) ==
    IF i >= n \/ Faulted(st) THEN st
    ELSE AppendCells(CopyCell(st, p, at + i, q, i), p, at, q, i + 1, n)

(* find_child_index_in_parent: num_keys for the right child, the cell index  *)
(* otherwise, -1 when the parent does not hold the page.                     *)
find_child_index_in_parent(parent, child_page_num) ==
    IF parent.link = child_page_num THEN parent.num
    ELSE ChildCellIndex(parent, child_page_num, 0,
                        Min2(parent.num, InternalCellsInPage))

(* The linear search above read past the buffer.                             *)
ChildSearchLeftPage(parent, child_page_num) ==
    /\ parent.link # child_page_num
    /\ parent.num > InternalCellsInPage
    /\ ChildCellIndex(parent, child_page_num, 0, InternalCellsInPage) < 0

(* key[key_num] of page p := the max key m.val just computed, in the state   *)
(* m.st get_node_max_key left.                                               *)
StoreMaxKey(m, p, key_num) ==
    WrW(m.st, p, get_internal_node_key(key_num), m.val)

(* child[child_num] of page p := its right child.                            *)
RightChildToCell(st, p, child_num) ==
    WrW(st, p, get_internal_node_child(child_num), PageOf(st, p).link)

(* "update all shifted keys to reflect their actual child max keys":         *)
(* key[i] := max(child[i]) for i from lo while i < num_keys.                 *)
RECURSIVE RederiveKeys(_, _, _)
RederiveKeys(st, parent_page_num, i) ==
    IF Faulted(st) \/ i >= PageOf(st, parent_page_num).num THEN st
    ELSE LET child_page == RdW(PageOf(st, parent_page_num),
                               get_internal_node_child(i))
         IN RederiveKeys(
               StoreMaxKey(
                  get_node_max_key(
                     pager_get_page(
                        Held(Touch(st, get_internal_node_child(i)),
                             parent_page_num),
                        child_page),
                     child_page),
                  parent_page_num, i),
               parent_page_num, i + 1)

BecomeRoot(st, p) ==
    SetParent(SetIsRoot(SetRootPageNum(st, p), p, 1), p, 0)

(* The two memmoves that close the gap cell_num of the parent leaves when n  *)
(* cells follow it: children, then keys.                                     *)
CloseParentGap(st, parent_page_num, cell_num, n) ==
    MemmoveWords(
        MemmoveWords(st, parent_page_num, get_internal_node_child(cell_num),
                     get_internal_node_child(cell_num + 1), n),
        parent_page_num, get_internal_node_key(cell_num),
        get_internal_node_key(cell_num + 1), n)


(* handle_internal_underflow. Borrowing from the right sibling and both      *)
(* merges store through get_internal_node_child(node, i) with i > num_keys,  *)
(* which is nullptr: the command dies there. Borrowing from the left         *)
(* sibling is the one path that returns.                                     *)
InternalBorrowLeft(st, page_num, parent_page_num, child_index, left_sibling_page_num) ==
    LET num_keys == PageOf(st, page_num).num
        left_keys == PageOf(st, left_sibling_page_num).num
        MakeRoom(s) ==
            IF num_keys > 0
            THEN MemmoveWords(
                   MemmoveWords(s, page_num, get_internal_node_child(1),
                                get_internal_node_child(0), num_keys + 1),
                   page_num, get_internal_node_key(1),
                   get_internal_node_key(0), num_keys)
            ELSE s
        TakeChild(bk, borrowed_child) ==
            SetParent(
               pager_get_page(
                  SetNum(StoreMaxKey(
                            [bk EXCEPT !.st =
                                WrW(@, page_num, get_internal_node_child(0),
                                    borrowed_child)],
                            page_num, 0),
                         page_num, num_keys + 1),
                  borrowed_child),
               borrowed_child, page_num)
        Take(s) ==
            TakeChild(get_node_max_key(s, left_sibling_page_num),
                      PageOf(s, left_sibling_page_num).link)
        Give(s) ==
            SetNum(SetLink(Touch(s, get_internal_node_child(left_keys - 1)),
                           left_sibling_page_num,
                           RdW(PageOf(s, left_sibling_page_num),
                               get_internal_node_child(left_keys - 1))),
                   left_sibling_page_num, left_keys - 1)
    IN StoreMaxKey(
          get_node_max_key(Give(Take(MakeRoom(st))), left_sibling_page_num),
          parent_page_num, child_index - 1)

(* With the right sibling fetched (when there is one): the choice.           *)
InternalUnderflowSiblings(st, page_num, parent_page_num, child_index, num_parent_keys, right_sibling_page_num) ==
    LET left_sibling_page_num ==
            RdW(PageOf(st, parent_page_num),
                get_internal_node_child(child_index - 1))
        s4 == pager_get_page(Touch(st, get_internal_node_child(child_index - 1)),
                             left_sibling_page_num)
    IN IF Faulted(st) THEN st
       ELSE IF /\ child_index < num_parent_keys
               /\ PageOf(st, right_sibling_page_num).num
                      > INTERNAL_NODE_MIN_KEYS
       THEN Fault(st, "null_deref")
       ELSE IF child_index > 0 /\ Faulted(s4) THEN s4
       ELSE IF /\ child_index > 0
               /\ PageOf(s4, left_sibling_page_num).num > INTERNAL_NODE_MIN_KEYS
       THEN InternalBorrowLeft(s4, page_num, parent_page_num, child_index,
                               left_sibling_page_num)
       ELSE Fault(st, "null_deref")

(* With the parent fetched: where the node sits in it.                       *)
InternalUnderflowIn(st, page_num, parent_page_num) ==
    LET parent == PageOf(st, parent_page_num)
        child_index == find_child_index_in_parent(parent, page_num)
        num_parent_keys == parent.num
        right_sibling_page_num ==
            IF child_index = Sub32(num_parent_keys, 1) THEN parent.link
            ELSE RdW(parent, get_internal_node_child(child_index + 1))
        s3 == IF child_index < num_parent_keys
              THEN pager_get_page(
                     IF child_index = Sub32(num_parent_keys, 1) THEN st
                     ELSE Touch(st, get_internal_node_child(child_index + 1)),
                     right_sibling_page_num)
              ELSE st
    IN IF Faulted(st) THEN st
       ELSE IF ChildSearchLeftPage(parent, page_num)
       THEN Fault(st, "out_of_page")
       ELSE IF child_index < 0 THEN st
       ELSE InternalUnderflowSiblings(s3, page_num, parent_page_num,
                                      child_index, num_parent_keys,
                                      right_sibling_page_num)

handle_internal_underflow(st, page_num) ==
    LET s1 == pager_get_page(st, page_num)
        node == PageOf(s1, page_num)
    IN IF Faulted(s1) \/ is_node_root(node) THEN s1
       ELSE InternalUnderflowIn(pager_get_page(s1, node.parent), page_num,
                                node.parent)


(* The end of both leaf merges: the parent has lost a key; the survivor      *)
(* becomes the root when the parent was a root with one key, and the page    *)
(* freed is the absorbed leaf in every case.                                 *)
AfterLeafMerge(st, parent_page_num, survivor, freed) ==
    LET parent == PageOf(st, parent_page_num)
    IN IF Faulted(st) THEN st
       ELSE IF is_node_root(parent) /\ parent.num = 0
       THEN free_page(BecomeRoot(st, survivor), freed)
       ELSE IF ~is_node_root(parent) /\ parent.num < INTERNAL_NODE_MIN_KEYS
       THEN handle_internal_underflow(free_page(st, freed), parent_page_num)
       ELSE free_page(st, freed)

(* A borrow that stores the borrowed key, the new maximum of the leaf, as   *)
(* the separator.                                                           *)
LeafBorrowRightKeepsMax(st, page_num, parent_page_num, child_index, right) ==
    LET right_sibling_cells == PageOf(st, right).num
        current_cells == PageOf(st, page_num).num
        Move(s) ==
            SetNum(SetNum(ShiftCellsLeft(
                             CopyCell(s, page_num, current_cells, right, 0),
                             right, 0, right_sibling_cells - 1),
                          page_num, current_cells + 1),
                   right, right_sibling_cells - 1)
        Separator(s) ==
            WrW(Touch(s, get_leaf_node_key(current_cells)), parent_page_num,
                get_internal_node_key(child_index),
                RdW(PageOf(s, page_num), get_leaf_node_key(current_cells)))
    IN Separator(Move(st))

LeafBorrowRight(st, page_num, parent_page_num, child_index, right) ==
    LET right_sibling_cells == PageOf(st, right).num
        current_cells == PageOf(st, page_num).num
        Move(s) ==
            SetNum(SetNum(ShiftCellsLeft(
                             CopyCell(s, page_num, current_cells, right, 0),
                             right, 0, right_sibling_cells - 1),
                          page_num, current_cells + 1),
                   right, right_sibling_cells - 1)
        Separator(s) ==
            WrW(Touch(s, get_leaf_node_key(0)), parent_page_num,
                get_internal_node_key(child_index),
                RdW(PageOf(s, right), get_leaf_node_key(0)))
    IN Separator(Move(st))

LeafBorrowLeft(st, page_num, parent_page_num, child_index, left) ==
    LET left_sibling_cells == PageOf(st, left).num
        current_cells == PageOf(st, page_num).num
        Move(s) ==
            SetNum(SetNum(CopyCell(
                             ShiftCellsRight(s, page_num, current_cells - 1, 0),
                             page_num, 0, left, left_sibling_cells - 1),
                          page_num, current_cells + 1),
                   left, left_sibling_cells - 1)
    IN StoreMaxKey(get_node_max_key(Move(st), left), parent_page_num,
                   child_index - 1)

LeafMergeLeft(st, page_num, parent_page_num, child_index, left) ==
    LET num_parent_keys == PageOf(st, parent_page_num).num
        left_cells == PageOf(st, left).num
        current_cells == PageOf(st, page_num).num
        Cells(s) ==
            SetNum(AppendCells(s, left, left_cells, page_num, 0, current_cells),
                   left, left_cells + current_cells)
        NextLeaf(s) == SetLink(s, left, PageOf(s, page_num).link)
        Gap(s) ==
            IF child_index < Sub32(num_parent_keys, 1)
            THEN CloseParentGap(s, parent_page_num, child_index,
                                num_parent_keys - child_index - 1)
            ELSE s
        Last(s) ==
            IF child_index = Sub32(num_parent_keys, 1)
            THEN RightChildToCell(s, parent_page_num, num_parent_keys - 1)
            ELSE s
        Keys1(s) ==
            RederiveKeys(SetNum(s, parent_page_num, Sub32(num_parent_keys, 1)),
                         parent_page_num, child_index - 1)
    IN AfterLeafMerge(
          Keys1(Last(Gap(StoreMaxKey(
                            get_node_max_key(NextLeaf(Cells(st)), left),
                            parent_page_num, child_index - 1)))),
          parent_page_num, left, page_num)

(* The merge with the right sibling, once it is fetched.                     *)
LeafMergeRightWith(st, page_num, parent_page_num, child_index, right) ==
    LET num_parent_keys == PageOf(st, parent_page_num).num
        right_cells == PageOf(st, right).num
        current_cells == PageOf(st, page_num).num
        Cells(s) ==
            SetNum(AppendCells(s, page_num, current_cells, right, 0,
                               right_cells),
                   page_num, current_cells + right_cells)
        NextLeaf(s) == SetLink(s, page_num, PageOf(s, right).link)
        Gap(s) ==
            IF child_index + 1 < Sub32(num_parent_keys, 1)
            THEN CloseParentGap(s, parent_page_num, child_index + 1,
                                num_parent_keys - child_index - 2)
            ELSE s
        Keys1(s) ==
            RederiveKeys(SetNum(s, parent_page_num, Sub32(num_parent_keys, 1)),
                         parent_page_num, child_index)
    IN AfterLeafMerge(
          Keys1(RightChildToCell(
                   Gap(StoreMaxKey(
                          get_node_max_key(NextLeaf(Cells(st)), page_num),
                          parent_page_num, child_index)),
                   parent_page_num, num_parent_keys - 1)),
          parent_page_num, page_num, right)

LeafMergeRight(st, page_num, parent_page_num, child_index) ==
    LET parent == PageOf(st, parent_page_num)
        right == RdW(parent, get_internal_node_child(child_index + 1))
    IN IF ChildIsNull(parent, child_index + 1) THEN Fault(st, "null_deref")
       ELSE LeafMergeRightWith(
               pager_get_page(
                  Touch(st, get_internal_node_child(child_index + 1)), right),
               page_num, parent_page_num, child_index, right)


(* The choice that tries the left sibling before the right one.              *)
LeafUnderflowLeftFirst(st, page_num, parent_page_num, child_index, num_parent_keys, right_sibling_page_num) ==
    LET left_sibling_page_num ==
            RdW(PageOf(st, parent_page_num),
                get_internal_node_child(child_index - 1))
        s4 == pager_get_page(st, left_sibling_page_num)
    IN IF Faulted(st) THEN st
       ELSE IF /\ child_index > 0
               /\ PageOf(s4, left_sibling_page_num).num > LEAF_NODE_MIN_CELLS
       THEN LeafBorrowLeft(s4, page_num, parent_page_num, child_index,
                           left_sibling_page_num)
       ELSE IF /\ child_index < num_parent_keys
               /\ PageOf(st, right_sibling_page_num).num > LEAF_NODE_MIN_CELLS
       THEN LeafBorrowRight(st, page_num, parent_page_num, child_index,
                            right_sibling_page_num)
       ELSE IF child_index > 0
       THEN LeafMergeLeft(s4, page_num, parent_page_num, child_index,
                          left_sibling_page_num)
       ELSE LeafMergeRight(st, page_num, parent_page_num, child_index)

(* With the right sibling fetched (when there is one): the choice.           *)
LeafUnderflowSiblings(st, page_num, parent_page_num, child_index, num_parent_keys, right_sibling_page_num) ==
    LET left_sibling_page_num ==
            RdW(PageOf(st, parent_page_num),
                get_internal_node_child(child_index - 1))
        s4 == pager_get_page(Touch(st, get_internal_node_child(child_index - 1)),
                             left_sibling_page_num)
    IN IF Faulted(st) THEN st
       ELSE IF /\ child_index < num_parent_keys
               /\ PageOf(st, right_sibling_page_num).num > LEAF_NODE_MIN_CELLS
       THEN LeafBorrowRight(st, page_num, parent_page_num, child_index,
                            right_sibling_page_num)
       ELSE IF child_index > 0
       THEN IF Faulted(s4) THEN s4
            ELSE IF PageOf(s4, left_sibling_page_num).num > LEAF_NODE_MIN_CELLS
            THEN LeafBorrowLeft(s4, page_num, parent_page_num, child_index,
                                left_sibling_page_num)
            ELSE LeafMergeLeft(s4, page_num, parent_page_num, child_index,
                               left_sibling_page_num)
       ELSE LeafMergeRight(st, page_num, parent_page_num, child_index)

(* With the parent fetched: where the leaf sits in it.                       *)
LeafUnderflowIn(st, page_num, parent_page_num) ==
    LET parent == PageOf(st, parent_page_num)
        child_index == find_child_index_in_parent(parent, page_num)
        num_parent_keys == parent.num
        right_sibling_page_num ==
            IF child_index = Sub32(num_parent_keys, 1) THEN parent.link
            ELSE RdW(parent, get_internal_node_child(child_index + 1))
        s3 == IF child_index < num_parent_keys
              THEN pager_get_page(
                     IF child_index = Sub32(num_parent_keys, 1) THEN st
                     ELSE Touch(st, get_internal_node_child(child_index + 1)),
                     right_sibling_page_num)
              ELSE st
    IN IF Faulted(st) THEN st
       ELSE IF ChildSearchLeftPage(parent, page_num)
       THEN Fault(st, "out_of_page")
       ELSE IF child_index < 0 THEN st
       ELSE LeafUnderflowSiblings(s3, page_num, parent_page_num, child_index,
                                  num_parent_keys, right_sibling_page_num)

handle_leaf_underflow(st, page_num) ==
    LET s1 == pager_get_page(st, page_num)
        node == PageOf(s1, page_num)
    IN IF Faulted(s1) \/ is_node_root(node) THEN s1
       ELSE LeafUnderflowIn(pager_get_page(s1, node.parent), page_num,
                            node.parent)

(* leaf_node_delete once the cell is removed.                                *)
LeafDeleteCheck(st, p) ==
    LET node == PageOf(st, p)
    IN IF Faulted(st) THEN st
       ELSE IF ~is_node_root(node) /\ node.num < LEAF_NODE_MIN_CELLS
       THEN handle_leaf_underflow(st, p)
       ELSE st

leaf_node_delete(st, cursor) ==
    LET p == cursor.page_num
        Remove(s) ==
            LET num_cells == PageOf(s, p).num
            IN SetNum(ShiftCellsLeft(s, p, cursor.cell_num,
                                     Sub32(num_cells, 1)),
                      p, Sub32(num_cells, 1))
    IN LeafDeleteCheck(Remove(pager_get_page(st, p)), p)

(* The command returned in state st: res, unless it died on the way.         *)
Returns(st, res) == Result(st, IF Faulted(st) THEN "fault" ELSE res)

(* execute_delete once find_key_location has returned loc.                   *)
DeleteAt(loc) ==
    IF Faulted(loc.st) THEN Result(loc.st, "fault")
    ELSE IF loc.key_found
    THEN Returns(leaf_node_delete(loc.st, loc.cursor), "EXECUTE_SUCCESS")
    ELSE Result(loc.st, "EXECUTE_RECORD_NOT_FOUND")

execute_delete(st, key_to_delete) ==
    DeleteAt(find_key_location(st, key_to_delete))


(***************************************************************************)
(* Scans. The rows a scan prints are a sequence of [id, username].         *)
(***************************************************************************)
(* The inner loop of execute_select over one leaf, from cell_num.            *)
RECURSIVE SelectCells(_, _, _)
SelectCells(pg, cell_num, rows) ==
    IF cell_num >= pg.num \/ ~InBody(get_leaf_node_value(cell_num) + 1)
    THEN rows
    ELSE SelectCells(pg, cell_num + 1,
                     Append(rows, deserialize_row(pg, cell_num)))

(* The scan read a cell that lies past the end of the page buffer.           *)
CellsLeavePage(pg, cell_num) ==
    /\ cell_num < pg.num
    /\ pg.num > LeafCellsInPage

(* The outer loop. A leaf entered a second time at cell 0 is entered for     *)
(* ever: the command never returns.                                          *)
RECURSIVE SelectLeaves(_, _, _, _, _)
SelectLeaves(st, page_num, cell_num, rows, visited) ==
    LET s1 == pager_get_page(st, page_num)
        leaf_node == PageOf(s1, page_num)
        out == SelectCells(leaf_node, cell_num, rows)
        next_leaf == leaf_node.link
    IN IF Faulted(s1) THEN [st |-> s1, rows |-> rows]
       ELSE IF CellsLeavePage(leaf_node, cell_num)
       THEN [st |-> Fault(s1, "out_of_page"), rows |-> out]
       ELSE IF next_leaf = 0 THEN [st |-> s1, rows |-> out]
       ELSE IF next_leaf \in visited
       THEN [st |-> Fault(s1, "hang"), rows |-> out]
       ELSE SelectLeaves(s1, next_leaf, 0, out, visited \cup {next_leaf})

execute_select(st) ==
    LET c == table_start(st)
        r == IF c.cursor.end_of_table \/ Faulted(c.st)
             THEN [st |-> c.st, rows |-> <<>>]
             ELSE SelectLeaves(c.st, c.cursor.page_num, c.cursor.cell_num,
                               <<>>,
                               IF c.cursor.cell_num = 0
                               THEN {c.cursor.page_num} ELSE {})
    IN [st |-> r.st, rows |-> r.rows,
        result |-> IF Faulted(r.st) THEN "fault" ELSE "EXECUTE_SUCCESS"]

(* The inner loop of execute_range: done is set by "current_key > end_key".  *)
RECURSIVE RangeCells(_, _, _, _, _)
RangeCells(pg, cell_num, start_key, end_key, rows) ==
    IF cell_num >= pg.num \/ ~InBody(get_leaf_node_value(cell_num) + 1)
    THEN [rows |-> rows, done |-> FALSE, cell_num |-> cell_num]
    ELSE LET current_key == RdW(pg, get_leaf_node_key(cell_num))
         IN IF current_key > end_key
            THEN [rows |-> rows, done |-> TRUE, cell_num |-> cell_num]
            ELSE RangeCells(pg, cell_num + 1, start_key, end_key,
                   IF current_key >= start_key /\ current_key <= end_key
                   THEN Append(rows, deserialize_row(pg, cell_num))
                   ELSE rows)

RECURSIVE RangeLeaves(_, _, _, _, _, _, _)
RangeLeaves(st, page_num, cell_num, start_key, end_key, rows, visited) ==
    LET s1 == pager_get_page(st, page_num)
        leaf_node == PageOf(s1, page_num)
        r == RangeCells(leaf_node, cell_num, start_key, end_key, rows)
        next_leaf == leaf_node.link
    IN IF Faulted(s1) THEN [st |-> s1, rows |-> rows]
       ELSE IF r.done THEN [st |-> s1, rows |-> r.rows]
       ELSE IF r.cell_num < leaf_node.num
       THEN [st |-> Fault(s1, "out_of_page"), rows |-> r.rows]
       ELSE IF next_leaf = 0 THEN [st |-> s1, rows |-> r.rows]
       ELSE IF next_leaf \in visited
       THEN [st |-> Fault(s1, "hang"), rows |-> r.rows]
       ELSE RangeLeaves(s1, next_leaf, 0, start_key, end_key, r.rows,
                        visited \cup {next_leaf})

execute_range(st, start_key, end_key) ==
    LET c == table_find(st, start_key)
        r == IF start_key > end_key THEN [st |-> st, rows |-> <<>>]
             ELSE IF c.cursor.end_of_table \/ Faulted(c.st)
             THEN [st |-> c.st, rows |-> <<>>]
             ELSE RangeLeaves(c.st, c.cursor.page_num, c.cursor.cell_num,
                              start_key, end_key, <<>>,
                              IF c.cursor.cell_num = 0
                              THEN {c.cursor.page_num} ELSE {})
    IN [st |-> r.st, rows |-> r.rows,
        result |-> IF Faulted(r.st) THEN "fault" ELSE "EXECUTE_SUCCESS"]


(***************************************************************************)
(* The validator (.validate). validate_tree_node returns                   *)
(*   st      the state it leaves (it fetches pages),                       *)
(*   ok      its return value,                                             *)
(*   set     whether *min_key and *max_key were written: a leaf without    *)
(*           cells leaves them alone,                                      *)
(*   max     *max_key (an internal node stores prev_max in both),          *)
(*   depth   *depth,                                                       *)
(*   sure    FALSE when a comparison read a child_min or child_max that    *)
(*           was never written: the return value may then be either.       *)
(* A page that is its own descendant makes the recursion endless.          *)
(***************************************************************************)
RECURSIVE LeafKeysSorted(_, _)
LeafKeysSorted(pg, i) ==
    IF i >= pg.num THEN TRUE
    ELSE IF RdW(pg, get_leaf_node_key(i - 1)) >= RdW(pg, get_leaf_node_key(i))
    THEN FALSE
    ELSE LeafKeysSorted(pg, i + 1)

ValidateFail(st) ==
    [st |-> st, ok |-> FALSE, set |-> FALSE, min |-> 0, max |-> 0,
     depth |-> 0, sure |-> TRUE]

RECURSIVE validate_tree_node(_, _, _)
RECURSIVE ValidateChildren(_, _, _, _, _)

(* The loop "for (i = 0; i <= num_keys; i++)" of an internal node; acc holds *)
(* first_child_depth, prev_max (with whether it was ever written) and sure.  *)
ValidateChildren(st, page_num, i, acc, path) ==
    LET node == PageOf(st, page_num)
        num_keys == node.num
        child_page_num == IF i = num_keys THEN node.link
                          ELSE RdW(node, get_internal_node_child(i))
        c == validate_tree_node(st, child_page_num, path \cup {page_num})
        depth_ok == acc.first_child_depth = -1
                        \/ c.depth = acc.first_child_depth
        overlap_known == c.set /\ acc.prev_set
        overlap == i > 0 /\ overlap_known /\ c.min <= acc.prev_max
        separator_key == RdW(PageOf(c.st, page_num), get_internal_node_key(i))
        below == i < num_keys /\ c.set /\ separator_key < c.max
        sure == /\ acc.sure /\ c.sure
                /\ (i > 0 => overlap_known)
                /\ (i < num_keys => c.set)
    IN IF i > num_keys
       THEN [st |-> st, ok |-> TRUE, set |-> acc.prev_set,
             min |-> acc.prev_max, max |-> acc.prev_max,
             depth |-> acc.first_child_depth + 1, sure |-> acc.sure]
       ELSE IF child_page_num \in path \cup {page_num}
       THEN ValidateFail(Fault(st, "hang"))
       ELSE IF Faulted(c.st) \/ ~c.ok THEN [ValidateFail(c.st) EXCEPT !.sure = c.sure]
       ELSE IF ~depth_ok
       THEN [ValidateFail(c.st) EXCEPT !.sure = acc.sure /\ c.sure]
       ELSE IF overlap \/ below
       THEN [ValidateFail(c.st) EXCEPT !.sure = sure]
       ELSE ValidateChildren(c.st, page_num, i + 1,
              [first_child_depth |-> IF acc.first_child_depth = -1
                                     THEN c.depth ELSE acc.first_child_depth,
               prev_max |-> c.max, prev_set |-> c.set, sure |-> sure],
              path)

validate_tree_node(st, page_num, path) ==
    LET s1 == pager_get_page(st, page_num)
        node == PageOf(s1, page_num)
    IN IF Faulted(s1) THEN ValidateFail(s1)
       ELSE IF get_node_type(node) = NODE_LEAF
       THEN IF \/ node.num > LEAF_NODE_MAX_CELLS
               \/ (~is_node_root(node) /\ node.num < LEAF_NODE_MIN_CELLS)
               \/ ~LeafKeysSorted(node, 1)
            THEN ValidateFail(s1)
            ELSE [st |-> s1, ok |-> TRUE, set |-> node.num > 0,
                  min |-> RdW(node, get_leaf_node_key(0)),
                  max |-> RdW(node, get_leaf_node_key(node.num - 1)),
                  depth |-> 0, sure |-> TRUE]
       ELSE IF \/ node.num > INTERNAL_NODE_MAX_KEYS
               \/ (~is_node_root(node) /\ node.num < INTERNAL_NODE_MIN_KEYS)
            THEN ValidateFail(s1)
            ELSE ValidateChildren(s1, page_num, 0,
                   [first_child_depth |-> -1, prev_max |-> 0,
                    prev_set |-> TRUE, sure |-> TRUE], path)

validate_tree(st) == validate_tree_node(st, st.root_page_num, {})

(* validate_free_chain: the walk from free_head with the set of the pages   *)
(* seen; every page of the chain is fetched, and the length is compared     *)
(* with num_pages of the pager as it is then.                               *)
RECURSIVE FreeChainWalk(_, _, _)
FreeChainWalk(st, current, visited) ==
    IF current = 0 THEN [st |-> st, ok |-> TRUE]
    ELSE IF current >= TABLE_MAX_PAGES THEN [st |-> st, ok |-> FALSE]
    ELSE IF current \in visited THEN [st |-> st, ok |-> FALSE]
    ELSE LET s1 == pager_get_page(st, current)
             next_free == First4(PageOf(s1, current))
         IN IF Cardinality(visited \cup {current}) > s1.num_pages
            THEN [st |-> s1, ok |-> FALSE]
            ELSE FreeChainWalk(s1, next_free, visited \cup {current})

validate_free_chain(st) ==
    IF st.free_head = 0 THEN [st |-> st, ok |-> TRUE]
    ELSE FreeChainWalk(st, st.free_head, {})


(***************************************************************************)
(* Opening and closing the database file.                                  *)
(***************************************************************************)
EmptyCache == [p \in {} |-> ZeroPage]

(* lru_map without an entry.                                                *)
NoIterators == [p \in {} |-> 0]

(* pager_open on a file that does not exist: the header and one zero page.   *)
NewFile ==
    [cache |-> EmptyCache, lru |-> <<>>, lru_map |-> NoIterators,
     file |-> [q \in {0} |-> ZeroPage],
     file_length |-> PAGE_SIZE + DB_FILE_HEADER_SIZE,
     num_pages |-> 1, root_page_num |-> 0, free_head |-> 0, fault |-> "none",
     past_array |-> 0,
     cache_size |-> PAGER_CACHE_SIZE]

(* pager_open on a file that exists: its pages f, its length in bytes and    *)
(* the two words of its header.                                              *)
pager_open(f, length, header) ==
    [cache |-> EmptyCache, lru |-> <<>>, lru_map |-> NoIterators,
     file |-> f, file_length |-> length,
     num_pages |-> (length - DB_FILE_HEADER_SIZE) \div PAGE_SIZE,
     root_page_num |-> header.root_page_num,
     free_head |-> header.free_head, fault |-> "none", past_array |-> 0,
     cache_size |-> PAGER_CACHE_SIZE]

(* new_table, after pager_open returned pager.                               *)
new_table(pager) ==
    LET s1 == pager_get_page(pager, pager.root_page_num)
        root_node == PageOf(s1, s1.root_page_num)
        node_type == get_node_type(root_node)
        needs_init ==
            IF node_type = NODE_LEAF
            THEN root_node.num > LEAF_NODE_MAX_CELLS \/ ~is_node_root(root_node)
            ELSE IF node_type = NODE_INTERNAL
            THEN \/ ~is_node_root(root_node)
                 \/ (root_node.num = 0 /\ s1.num_pages = 1)
            ELSE TRUE
    IN IF needs_init
       THEN PutPage(s1, s1.root_page_num,
                    [initialize_leaf_node(root_node) EXCEPT !.is_root = 1])
       ELSE s1

(* free_table: every cached page flushed, then the header written.           *)
RECURSIVE FlushAll(_, _)
FlushAll(st, pages) ==
    IF pages = {} THEN st
    ELSE LET page_num == CHOOSE q \in pages : \A r \in pages : q <= r
         IN FlushAll(pager_flush(st, page_num), pages \ {page_num})

(* A close that writes the header and flushes no page.                      *)
CloseWithoutFlush(st) == st

free_table(st) == FlushAll(st, DOMAIN st.cache)

(* The header free_table writes last.                                        *)
HeaderOf(st) ==
    [root_page_num |-> st.root_page_num, free_head |-> st.free_head]


(***************************************************************************)
(* The REPL: one step per command of main().                               *)
(***************************************************************************)
NoRef == [k \in {} |-> 0]

Init ==
    LET st == new_table(NewFile)
    IN /\ page_cache = st.cache
       /\ lru_list = st.lru
       /\ lru_map = st.lru_map
       /\ file = st.file
       /\ file_header = [root_page_num |-> 0, free_head |-> 0]
       /\ file_length = st.file_length
       /\ num_pages = st.num_pages
       /\ root_page_num = st.root_page_num
       /\ free_head = st.free_head
       /\ phase = "open"
       /\ ref = NoRef
       /\ gone = {}
       /\ last = [op |-> "open", result |-> "EXECUTE_SUCCESS"]
       /\ cmds = 0
       /\ work = [stage |-> "idle", K |-> {}, built |-> <<>>]

(* The command returned in state st with the result code res; a command     *)
(* that faulted ends the session, whatever it had flushed stays in the file. *)
Step(st, op, res) ==
    /\ file' = st.file
    /\ file_length' = st.file_length
    /\ UNCHANGED file_header
    /\ IF Faulted(st)
       THEN /\ phase' = "fault"
            /\ page_cache' = EmptyCache
            /\ lru_list' = <<>>
            /\ lru_map' = NoIterators
            /\ num_pages' = 0
            /\ root_page_num' = 0
            /\ free_head' = 0
            /\ last' = [op |-> op, result |-> st.fault]
       ELSE /\ phase' = "open"
            /\ page_cache' = st.cache
            /\ lru_list' = st.lru
            /\ lru_map' = st.lru_map
            /\ num_pages' = st.num_pages
            /\ root_page_num' = st.root_page_num
            /\ free_head' = st.free_head
            /\ last' = [op |-> op, result |-> res]

(* The command of this step returned Ok.                                     *)
Accepted == phase' = "open" /\ last'.result = "EXECUTE_SUCCESS"

(* The word an insert finds behind temp_keys when it splits a full internal  *)
(* node: a word below every key or a word above every key. No other insert   *)
(* reads it, and one value stands for all where no internal node is full.    *)
PastArray ==
    IF \E p \in DOMAIN page_cache :
          /\ page_cache[p].node_type = NODE_INTERNAL
          /\ page_cache[p].num >= INTERNAL_NODE_MAX_KEYS
    THEN {0, 2^30}
    ELSE {0}

InsertFrom(st, k, v) ==
    /\ phase = "open"
    /\ cmds' = cmds + 1
    /\ LET r == execute_insert(st, [id |-> k, username |-> v])
       IN Step(r.st, "insert", r.result)
    /\ ref' = IF Accepted /\ k \notin DOMAIN ref THEN (k :> v) @@ ref ELSE ref
    /\ gone' = IF Accepted THEN gone \ {k} ELSE gone

InsertRow(k, v, w) == InsertFrom([Cur EXCEPT !.past_array = w], k, v)

Insert(k, v) ==
    /\ num_pages < MaxPages
    /\ \E w \in PastArray : InsertRow(k, v, w)

Delete(k) ==
    /\ phase = "open"
    /\ cmds' = cmds + 1
    /\ LET r == execute_delete(Cur, k)
       IN Step(r.st, "delete", r.result)
    /\ ref' = IF Accepted THEN [j \in DOMAIN ref \ {k} |-> ref[j]] ELSE ref
    /\ gone' = IF Accepted THEN gone \cup {k} ELSE gone

Update(k, v) ==
    /\ phase = "open"
    /\ cmds' = cmds + 1
    /\ LET r == execute_update(Cur, [id |-> k, username |-> v])
       IN Step(r.st, "update", r.result)
    /\ ref' = IF Accepted /\ k \in DOMAIN ref THEN [ref EXCEPT ![k] = v]
              ELSE ref
    /\ UNCHANGED gone

Find(k) ==
    /\ phase = "open"
    /\ UNCHANGED cmds
    /\ LET r == execute_find(Cur, k)
       IN Step(r.st, "find", r.result)
    /\ UNCHANGED <<ref, gone>>

Select ==
    /\ phase = "open"
    /\ UNCHANGED cmds
    /\ LET r == execute_select(Cur)
       IN Step(r.st, "select", r.result)
    /\ UNCHANGED <<ref, gone>>

Range(lo, hi) ==
    /\ phase = "open"
    /\ UNCHANGED cmds
    /\ LET r == execute_range(Cur, lo, hi)
       IN Step(r.st, "range", r.result)
    /\ UNCHANGED <<ref, gone>>

Validate ==
    /\ phase = "open"
    /\ UNCHANGED cmds
    /\ LET r == validate_tree(Cur)
       IN Step(r.st, "validate", IF r.ok THEN "valid" ELSE "invalid")
    /\ UNCHANGED <<ref, gone>>

(* .exit: free_table, then the process ends.                                 *)
Close ==
    /\ phase = "open"
    /\ cmds' = cmds + 1
    /\ LET st == free_table(Cur)
       IN /\ file' = st.file
          /\ file_length' = st.file_length
          /\ file_header' = HeaderOf(st)
    /\ phase' = "closed"
    /\ page_cache' = EmptyCache
    /\ lru_list' = <<>>
    /\ lru_map' = NoIterators
    /\ num_pages' = 0
    /\ root_page_num' = 0
    /\ free_head' = 0
    /\ last' = [op |-> "exit", result |-> "EXECUTE_SUCCESS"]
    /\ UNCHANGED <<ref, gone>>

(* The program started again on the same file.                               *)
Reopen ==
    /\ phase = "closed"
    /\ UNCHANGED cmds
    /\ LET st == new_table(pager_open(file, file_length, file_header))
       IN Step(st, "open", "EXECUTE_SUCCESS")
    /\ UNCHANGED <<ref, gone>>

(* Any command of the REPL, in a run of at most MaxCmds writing commands.     *)
Next ==
    /\ \/ cmds < MaxCmds /\ \E k \in Keys, v \in Vals : Insert(k, v)
       \/ cmds < MaxCmds /\ \E k \in Keys : Delete(k)
       \/ cmds < MaxCmds /\ \E k \in Keys, v \in Vals : Update(k, v)
       \/ \E k \in Keys : Find(k)
       \/ Select
       \/ \E lo \in Keys, hi \in Keys : Range(lo, hi)
       \/ Validate
       \/ cmds < MaxCmds /\ Close
       \/ Reopen
    /\ UNCHANGED work

Spec == Init /\ [][Next]_vars

(* One session of at most MaxWrites writing commands and no other: a client  *)
(* that stores the first username with insert and another with update.       *)
NextWrites ==
    /\ cmds < MaxWrites
    /\ \/ \E k \in Keys : Insert(k, 1)
       \/ \E k \in Keys : Delete(k)
       \/ \E k \in Keys : Update(k, MaxVal)
    /\ UNCHANGED work

SpecWrites == Init /\ [][NextWrites]_vars

(* One session of at most MaxWideWrites inserts and deletes over the keys     *)
(* 1..MaxWideKey: enough keys for a root over three leaves.                  *)
NextWide ==
    /\ cmds < MaxWideWrites
    /\ \/ \E k \in 1..MaxWideKey : Insert(k, 1)
       \/ \E k \in 1..MaxWideKey : Delete(k)
    /\ UNCHANGED work

SpecWide == Init /\ [][NextWide]_vars

(* Sessions of inserts and deletes over the keys 1..MaxWideKey, each ended  *)
(* by .exit and followed by a new start on the file, with at most           *)
(* MaxWideWrites commands in all.                                           *)
NextExit ==
    /\ \/ cmds < MaxWideWrites /\ \E k \in 1..MaxWideKey : Insert(k, 1)
       \/ cmds < MaxWideWrites /\ \E k \in 1..MaxWideKey : Delete(k)
       \/ cmds < MaxWideWrites /\ Close
       \/ Reopen
    /\ UNCHANGED work

SpecExit == Init /\ [][NextExit]_vars

(* The pager alone: a caller that fetches page 0, the highest page again or  *)
(* the page after it, up to MaxFetchPages pages, more than the cache holds. *)
(* A call that returns nullptr leaves the caller with the pager as the call  *)
(* left it.                                                                  *)
Fetch(p) ==
    /\ phase = "open"
    /\ LET st == pager_get_page(Cur, p)
       IN Step([st EXCEPT !.fault = "none"], "get_page",
               IF Faulted(st) THEN "nullptr" ELSE "EXECUTE_SUCCESS")
    /\ UNCHANGED <<ref, gone, cmds>>

(* Page numbers the pager refuses.                                          *)
OutOfBounds == {TABLE_MAX_PAGES, TABLE_MAX_PAGES + 1}

(* The pages that caller asks for.                                          *)
FetchedPages == {p \in {0, num_pages - 1, num_pages} : p < MaxFetchPages}

NextPager ==
    /\ \E p \in FetchedPages \cup OutOfBounds : Fetch(p)
    /\ UNCHANGED work

SpecPager == Init /\ [][NextPager]_vars

(* A table loaded with the keys 2, 4, .. 2 * DeepLoad in ascending order,   *)
(* which leaves the root with INTERNAL_NODE_MAX_KEYS keys over leaves of two *)
(* cells, and then up to MaxDeepWrites inserts between and after them, so    *)
(* that the first, a middle or the last leaf splits under the full root.     *)
DeepKeys == {1, 3, 13, 15, 25, 26}

Load ==
    /\ cmds < DeepLoad
    /\ \E w \in PastArray : InsertRow(2 * (cmds + 1), 1, w)

Grow(k) ==
    /\ cmds >= DeepLoad
    /\ cmds < DeepLoad + MaxDeepWrites
    /\ \E w \in PastArray : InsertRow(k, 1, w)

NextDeep ==
    /\ \/ Load
       \/ \E k \in DeepKeys : Grow(k)
    /\ UNCHANGED work

SpecDeep == Init /\ [][NextDeep]_vars

(* The same client over a pager whose cache is scaled with the page: as at   *)
(* PAGE_SIZE 4096, where a full internal node has 511 children and the cache *)
(* 100 buffers, one internal node has more children than the pager has       *)
(* buffers, while the pages of one root-to-leaf path and of one leaf split   *)
(* fit.                                                                      *)
Tight(w) == [Cur EXCEPT !.past_array = w, !.cache_size = TightCacheSize]

LoadTight ==
    /\ cmds < DeepLoad
    /\ \E w \in PastArray : InsertFrom(Tight(w), 2 * (cmds + 1), 1)

GrowTight(k) ==
    /\ cmds >= DeepLoad
    /\ cmds < DeepLoad + MaxDeepWrites
    /\ \E w \in PastArray : InsertFrom(Tight(w), k, 1)

NextTight ==
    /\ \/ LoadTight
       \/ \E k \in DeepKeys : GrowTight(k)
    /\ UNCHANGED work

SpecTight == Init /\ [][NextTight]_vars

(* A table whose pager has reached the last or the last but one page number *)
(* it admits (a fetch of that page puts num_pages there), and up to         *)
(* MaxFullWrites inserts into it.                                           *)
LastPages == {TABLE_MAX_PAGES - 2, TABLE_MAX_PAGES - 1}

NextFull ==
    /\ \/ cmds < MaxFullWrites /\ \E k \in 1..MaxWideKey : InsertFrom(Cur, k, 1)
       \/ \E p \in LastPages : Fetch(p)
    /\ UNCHANGED work

SpecFull == Init /\ [][NextFull]_vars

(* The pager under a caller that allocates pages, frees them (a page twice  *)
(* too), writes a node header into a page and has the free chain validated, *)
(* MaxChainOps times in all over at most MaxChainPages pages.               *)
AllocatePage ==
    /\ num_pages < MaxChainPages
    /\ LET a == get_unused_page_num(Cur)
       IN Step(pager_get_page(a.st, a.page_num), "allocate", "EXECUTE_SUCCESS")

FreePage(p) ==
    /\ p < num_pages
    /\ Step(free_page(Cur, p), "free", "EXECUTE_SUCCESS")

(* initialize_leaf_node and set_node_root or the parent pointer, on page p. *)
WriteLeafHeader(p, is_root, parent_page_num) ==
    /\ p < num_pages
    /\ Step(SetParent(SetIsRoot(InitLeaf(pager_get_page(Cur, p), p), p, is_root),
                      p, parent_page_num),
            "write", "EXECUTE_SUCCESS")

ValidateFreeChain ==
    LET r == validate_free_chain(Cur)
    IN Step(r.st, "validate_free_chain", IF r.ok THEN "valid" ELSE "invalid")

NextChain ==
    /\ phase = "open"
    /\ cmds < MaxChainOps
    /\ cmds' = cmds + 1
    /\ \/ AllocatePage
       \/ \E p \in 1..(MaxChainPages - 1) : FreePage(p)
       \/ \E p \in 1..(MaxChainPages - 1) : WriteLeafHeader(p, 1, 0)
       \/ \E p \in 1..(MaxChainPages - 1) : WriteLeafHeader(p, 0, 2)
       \/ ValidateFreeChain
    /\ UNCHANGED <<ref, gone, work>>

SpecChain == Init /\ [][NextChain]_vars

(* A client that chooses a key set K, inserts all of K in some order,        *)
(* deletes all of K in some order, and starts over, MaxBuilds times; it      *)
(* repeats a command that was refused, and gives MaxCycleCmds commands at    *)
(* most: what MaxBuilds builds and the teardowns between them need, and one  *)
(* command more.                                                             *)
MaxCycleCmds == (2 * MaxBuilds - 1) * MaxKey + 1

Begin(K) ==
    /\ work.stage = "idle"
    /\ work' = [stage |-> "build", K |-> K, built |-> <<>>]
    /\ UNCHANGED <<page_cache, lru_list, lru_map, file, file_header,
                   file_length, num_pages, root_page_num, free_head, phase,
                   ref, gone, last, cmds>>

BuildStep(k) ==
    /\ work.stage = "build"
    /\ cmds < MaxCycleCmds
    /\ Len(work.built) < MaxBuilds
    /\ k \in work.K \ DOMAIN ref
    /\ Insert(k, 1)
    /\ work' = IF phase' = "open" /\ DOMAIN ref' = work.K
               THEN [work EXCEPT !.stage = "teardown",
                                 !.built = Append(@, num_pages')]
               ELSE work

TeardownStep(k) ==
    /\ work.stage = "teardown"
    /\ cmds < MaxCycleCmds
    /\ k \in DOMAIN ref
    /\ Delete(k)
    /\ work' = IF phase' = "open" /\ DOMAIN ref' = {}
               THEN [work EXCEPT !.stage = "build"]
               ELSE work

NextCycle ==
    \/ \E K \in SUBSET Keys \ {{}} : Begin(K)
    \/ \E k \in Keys : BuildStep(k)
    \/ \E k \in Keys : TeardownStep(k)

SpecCycle == Init /\ [][NextCycle]_vars


(***************************************************************************)
(* What a client may expect: ref holds the rows it stored with a command   *)
(* that returned Ok and did not delete with one since.                     *)
(***************************************************************************)
Live == DOMAIN ref

RowOf(k) == [id |-> k, username |-> ref[k]]

(* The live rows with lo <= key <= hi, in ascending key order.               *)
RECURSIVE LiveRows(_, _)
LiveRows(lo, hi) ==
    IF lo > hi THEN <<>>
    ELSE IF lo \in Live THEN <<RowOf(lo)>> \o LiveRows(lo + 1, hi)
    ELSE LiveRows(lo + 1, hi)

(* The content of page p: its buffer when it is cached, else what the file   *)
(* holds, else the zero page a first fetch would give.                       *)
ContentAt(cache, f, p) ==
    IF p \in DOMAIN cache THEN cache[p]
    ELSE IF p \in DOMAIN f THEN f[p]
    ELSE ZeroPage

PageNums == 0..(MaxPages + MaxWideKey)

Contents == [p \in PageNums |-> ContentAt(page_cache, file, p)]

(* C1: every key inserted and not deleted since is found, with the row       *)
(* stored last for it by insert or update.                                   *)
C1_FindReturnsCurrentRow ==
    phase = "open" =>
        \A k \in Live :
            LET r == execute_find(Cur, k)
            IN r.result = "EXECUTE_SUCCESS" /\ r.row = RowOf(k)

(* C2: select prints every live row once, in ascending key order, and no     *)
(* other row; nothing on an empty table.                                     *)
C2_SelectIsLiveRowsAscending ==
    phase = "open" =>
        LET r == execute_select(Cur)
        IN r.result = "EXECUTE_SUCCESS" /\ r.rows = LiveRows(1, MaxKey)

(* C3: for lo <= hi, range(lo, hi) prints exactly the live rows with         *)
(* lo <= key <= hi, each once, in ascending key order.                       *)
C3_RangeIsLiveRowsBetween ==
    phase = "open" =>
        \A lo \in Keys, hi \in Keys :
            lo <= hi =>
                LET r == execute_range(Cur, lo, hi)
                IN r.result = "EXECUTE_SUCCESS" /\ r.rows = LiveRows(lo, hi)

(* C4: the validator started at root_page_num reports success after every    *)
(* insert, delete or update that returned.                                   *)
C4_ValidatorSucceedsAfterWrite ==
    (phase = "open" /\ last.op \in {"insert", "delete", "update"}) =>
        LET r == validate_tree(Cur)
        IN ~Faulted(r.st) /\ r.ok /\ r.sure

(* C5: a key that was deleted and not inserted again is not found: find      *)
(* returns RecordNotFound.                                                   *)
C5_DeletedKeyNotFound ==
    phase = "open" =>
        \A k \in gone :
            execute_find(Cur, k).result = "EXECUTE_RECORD_NOT_FOUND"


(* The command of this step returned: the session goes on.                   *)
Returned == phase' = "open"

ContentsUnchanged == Contents' = Contents

PagerUnchanged ==
    /\ root_page_num' = root_page_num
    /\ free_head' = free_head
    /\ num_pages' = num_pages

(* C6: insert of a live key returns DuplicateKey and leaves the stored rows  *)
(* as they were: no second cell, and find still returns the earlier row.     *)
C6_InsertOfLiveKeyIsRejected ==
    [][\A k \in Keys, v \in Vals :
          (Insert(k, v) /\ k \in Live) =>
              /\ Returned
              /\ last'.result = "EXECUTE_DUPLICATE_KEY"
              /\ ContentsUnchanged]_vars

(* C7: find, update and delete of a key that is not live return              *)
(* RecordNotFound and leave root_page_num, free_head, num_pages and every    *)
(* page as they were.                                                        *)
C7_MissingKeyLeavesStateAlone ==
    [][\A k \in Keys :
          (k \notin Live /\ (\/ Find(k)
                             \/ Delete(k)
                             \/ \E v \in Vals : Update(k, v))) =>
              /\ Returned
              /\ last'.result = "EXECUTE_RECORD_NOT_FOUND"
              /\ PagerUnchanged
              /\ ContentsUnchanged]_vars

(* The word w of page p is payload of a cell of a leaf that holds key k.     *)
IsPayloadOf(k, p, w) ==
    LET pg == Contents[p]
    IN /\ get_node_type(pg) = NODE_LEAF
       /\ \E i \in 0..(LeafCellsInPage - 1) :
             /\ i < pg.num
             /\ RdW(pg, get_leaf_node_key(i)) = k
             /\ w > get_leaf_node_key(i)
             /\ w < get_leaf_node_cell(i + 1)

(* Page p differs between the two states of the step in payload words of k   *)
(* at most.                                                                  *)
OnlyPayloadChanged(k, p) ==
    /\ [Contents'[p] EXCEPT !.body = Contents[p].body] = Contents[p]
    /\ \A w \in 1..BodyWords :
          Contents'[p].body[w] # Contents[p].body[w] => IsPayloadOf(k, p, w)

(* C8: update of a live key returns Ok and changes the payload of the cell   *)
(* that holds the key, nothing else: not a key, another row, a count, a      *)
(* child pointer, a separator, a next_leaf link or a field of the pager.     *)
C8_UpdateChangesOnlyThePayload ==
    [][\A k \in Keys, v \in Vals :
          (Update(k, v) /\ k \in Live) =>
              /\ Returned
              /\ last'.result = "EXECUTE_SUCCESS"
              /\ PagerUnchanged
              /\ \A p \in PageNums : OnlyPayloadChanged(k, p)]_vars

(* The database a new process finds after .exit in the state st.             *)
ReopenAfter(st) ==
    LET closed == free_table(st)
    IN new_table(pager_open(closed.file, closed.file_length, HeaderOf(closed)))

Answer(r) == [result |-> r.result, row |-> r.row]
Printed(r) == [result |-> r.result, rows |-> r.rows]

(* C9: after .exit and a new start on the same file, find, select and range  *)
(* answer as they did before the .exit, from the same root_page_num,         *)
(* free_head and page contents.                                              *)
C9_ReopenGivesTheSameAnswers ==
    phase = "open" =>
        LET st == ReopenAfter(Cur)
        IN /\ ~Faulted(st)
           /\ st.root_page_num = root_page_num
           /\ st.free_head = free_head
           /\ \A p \in PageNums : ContentAt(st.cache, st.file, p) = Contents[p]
           /\ \A k \in Keys :
                 Answer(execute_find(st, k)) = Answer(execute_find(Cur, k))
           /\ Printed(execute_select(st)) = Printed(execute_select(Cur))
           /\ \A lo \in Keys, hi \in Keys :
                 Printed(execute_range(st, lo, hi))
                     = Printed(execute_range(Cur, lo, hi))


(* C10: building the key set again after deleting all of it takes no more    *)
(* pages than the first build did, however often the cycle is repeated.      *)
C10_RebuildTakesNoMorePages ==
    \A i \in 1..Len(work.built) : work.built[i] <= work.built[1]


(***************************************************************************)
(* The tree as the pages hold it. The structure is read from Contents, the *)
(* pages as the next command would see them, whatever state they are in:   *)
(* a page is an internal node when its node_type is NODE_INTERNAL, a leaf  *)
(* when it is NODE_LEAF.                                                   *)
(***************************************************************************)
PageAt(p) == IF p \in PageNums THEN Contents[p] ELSE ZeroPage

IsInternal(p) == get_node_type(PageAt(p)) = NODE_INTERNAL
IsLeaf(p) == get_node_type(PageAt(p)) = NODE_LEAF

(* The number of cells of page p that lie inside the page buffer.            *)
CellsOf(p) ==
    Min2(PageAt(p).num,
         IF IsInternal(p) THEN InternalCellsInPage ELSE LeafCellsInPage)

(* Child i of the internal node p: cell i, or right_child for i = num_keys.  *)
ChildAt(p, i) ==
    IF i >= CellsOf(p) THEN PageAt(p).link
    ELSE RdW(PageAt(p), get_internal_node_child(i))

KeyAt(p, i) == RdW(PageAt(p), get_internal_node_key(i))

ChildPages(p) ==
    IF IsInternal(p) THEN {ChildAt(p, i) : i \in 0..CellsOf(p)} ELSE {}

LeafKeys(p) ==
    {RdW(PageAt(p), get_leaf_node_key(i)) : i \in 0..(CellsOf(p) - 1)}

(* The pages reachable from the pages of front through child pointers.       *)
RECURSIVE ReachFrom(_, _)
ReachFrom(front, seen) ==
    IF front = {} THEN seen
    ELSE LET next == UNION {ChildPages(p) : p \in front} \ seen
         IN ReachFrom(next, seen \cup next)

Reachable == ReachFrom({root_page_num}, {root_page_num})

(* The keys in the leaves below page p; path holds the pages above it.       *)
RECURSIVE SubtreeKeys(_, _)
SubtreeKeys(p, path) ==
    IF p \in path THEN {}
    ELSE IF IsLeaf(p) THEN LeafKeys(p)
    ELSE UNION {SubtreeKeys(c, path \cup {p}) : c \in ChildPages(p)}

SetMax(S) == CHOOSE x \in S : \A y \in S : y <= x
SetMin(S) == CHOOSE x \in S : \A y \in S : x <= y

(* Cell i of the internal node p separates child i from child i + 1.         *)
SeparatorHolds(p, i) ==
    LET below == SubtreeKeys(ChildAt(p, i), {p})
        above == SubtreeKeys(ChildAt(p, i + 1), {p})
    IN /\ below # {}
       /\ above # {}
       /\ KeyAt(p, i) = SetMax(below)
       /\ SetMax(below) < SetMin(above)

(* C11: after every completed operation, in every internal node reachable   *)
(* from the root, key[i] is the maximum key below child i, and every key     *)
(* below child i is less than every key below child i + 1.                   *)
C11_SeparatorsAreChildMaxima ==
    phase = "open" =>
        \A p \in Reachable :
            IsInternal(p) =>
                /\ PageAt(p).num <= InternalCellsInPage
                /\ \A i \in 0..(CellsOf(p) - 1) : SeparatorHolds(p, i)


(* The free chain: free_head, then the first four bytes of each page, until  *)
(* 0 or a page that was visited before.                                      *)
RECURSIVE ChainFrom(_, _)
ChainFrom(p, seen) ==
    IF p = 0 \/ p \in seen \/ p \notin PageNums THEN seen
    ELSE ChainFrom(First4(PageAt(p)), seen \cup {p})

FreeChain == ChainFrom(free_head, {})

(* The page numbers the pager has handed out.                                *)
Allocated == 0..(Max2(num_pages, 1) - 1)

(* C12: after every completed operation every allocated page is reachable    *)
(* from the root or on the free chain, and none is both.                     *)
C12_PagesAreReachableOrFree ==
    phase = "open" =>
        \A p \in Allocated : (p \in Reachable) # (p \in FreeChain)


(* The walk from page p along the free chain ends at 0 without visiting a    *)
(* page twice.                                                               *)
RECURSIVE ChainEndsAtZero(_, _)
ChainEndsAtZero(p, seen) ==
    IF p = 0 THEN TRUE
    ELSE IF p \in seen \/ p \notin PageNums THEN FALSE
    ELSE ChainEndsAtZero(First4(PageAt(p)), seen \cup {p})

(* C13: after every completed operation the free chain visits no page twice, *)
(* ends at 0, and holds no page that is reachable from the root.             *)
C13_FreeChainIsAcyclicAndDisjoint ==
    phase = "open" =>
        /\ ChainEndsAtZero(free_head, {})
        /\ FreeChain \cap Reachable = {}


(***************************************************************************)
(* The leaf chain: table_start descends through child 0 to the leftmost     *)
(* leaf, and execute_select follows next_leaf from there until it reads 0.  *)
(* LeafWalk is the sequence of pages that walk visits; it stops at the      *)
(* first page it meets a second time, which it records.                     *)
(***************************************************************************)
RECURSIVE LeftmostFrom(_, _)
LeftmostFrom(p, seen) ==
    IF IsLeaf(p) \/ p \in seen THEN p
    ELSE LeftmostFrom(ChildAt(p, 0), seen \cup {p})

LeftmostLeaf == LeftmostFrom(root_page_num, {})

RECURSIVE LeafWalk(_, _)
LeafWalk(p, walk) ==
    IF \E j \in DOMAIN walk : walk[j] = p THEN Append(walk, p)
    ELSE IF PageAt(p).link = 0 THEN Append(walk, p)
    ELSE LeafWalk(PageAt(p).link, Append(walk, p))

ReachableLeaves == {p \in Reachable : IsLeaf(p)}

(* C14: following next_leaf from the leftmost leaf until it is 0 visits     *)
(* every leaf reachable from the root exactly once, in ascending key order, *)
(* and visits no page that is not a reachable leaf.                         *)
C14_LeafChainIsTheReachableLeaves ==
    phase = "open" =>
        LET walk == LeafWalk(LeftmostLeaf, <<>>) IN
        /\ \A i, j \in DOMAIN walk : i < j => walk[i] # walk[j]
        /\ {walk[i] : i \in DOMAIN walk} = ReachableLeaves
        /\ \A i, j \in DOMAIN walk : i < j =>
               \A a \in LeafKeys(walk[i]), b \in LeafKeys(walk[j]) : a < b

(***************************************************************************)
(* Parent pointers.  ParentOf is the common-header field parent_page of a   *)
(* page; Holders(c) are the reachable internal nodes with c among the       *)
(* children of their cells or as their right child.                         *)
(***************************************************************************)
ParentOf(p) == PageAt(p).parent

Holders(c) == {p \in Reachable : IsInternal(p) /\ c \in ChildPages(p)}

(* C15: every node reachable from the root, other than the root, has its    *)
(* parent_page equal to the page number of the internal node that holds it  *)
(* as a child.                                                              *)
C15_ParentPointersNameTheHolder ==
    phase = "open" =>
        \A c \in Reachable \ {root_page_num} :
            \A p \in Holders(c) : ParentOf(c) = p
(***************************************************************************)
(* The split of a full leaf.  CellsIn is the sequence of the cells of a     *)
(* leaf page, each cell the words of its key and row; Placed is that        *)
(* sequence with one more cell at the position leaf_node_find gives it.     *)
(***************************************************************************)
CellsIn(pg) ==
    [i \in 1..Min2(pg.num, LeafCellsInPage) |->
        [j \in 0..(LeafCellWords - 1) |->
            RdW(pg, get_leaf_node_cell(i - 1) + j)]]

NewCell(k, v) ==
    [j \in 0..(LeafCellWords - 1) |->
        IF j = 0 THEN k ELSE serialize_row([id |-> k, username |-> v])[j - 1]]

KeyOfCell(cell) == cell[0]

Placed(cells, cell) ==
    LET Below(c) == KeyOfCell(c) < KeyOfCell(cell)
        AtOrAbove(c) == ~Below(c)
    IN SelectSeq(cells, Below) \o <<cell>> \o SelectSeq(cells, AtOrAbove)

(* The leaf an insert of k reaches, and whether it will split it.           *)
SplitPage(k) == find_key_location(Cur, k).cursor.page_num

SplitsLeaf(k) ==
    LET loc == find_key_location(Cur, k)
    IN /\ ~Faulted(loc.st)
       /\ ~loc.key_found
       /\ PageOf(loc.st, loc.cursor.page_num).num = LEAF_NODE_MAX_CELLS

NewPage == get_unused_page_num(Cur).page_num

SplitAt == (LEAF_NODE_MAX_CELLS + 1) \div 2

(* The keys 1..LEAF_NODE_MAX_CELLS in a root leaf, as ascending inserts     *)
(* into an empty database leave them.                                       *)
RootLeafIsFullAscending ==
    /\ IsLeaf(root_page_num)
    /\ is_node_root(PageAt(root_page_num))
    /\ [i \in DOMAIN CellsIn(PageAt(root_page_num)) |->
           KeyOfCell(CellsIn(PageAt(root_page_num))[i])]
          = [i \in 1..LEAF_NODE_MAX_CELLS |-> i]

(* The root over two leaves that hold 1..SplitAt and the keys above.        *)
RootOverTwoHalves(root, contents) ==
    LET rt == contents[root]
        left == RdW(rt, get_internal_node_child(0))
        right == rt.link
    IN /\ get_node_type(rt) = NODE_INTERNAL
       /\ rt.num = 1
       /\ RdW(rt, get_internal_node_key(0)) = SplitAt
       /\ left \in PageNums /\ right \in PageNums
       /\ get_node_type(contents[left]) = NODE_LEAF
       /\ get_node_type(contents[right]) = NODE_LEAF
       /\ [i \in DOMAIN CellsIn(contents[left]) |->
              KeyOfCell(CellsIn(contents[left])[i])]
             = [i \in 1..SplitAt |-> i]
       /\ [i \in DOMAIN CellsIn(contents[right]) |->
              KeyOfCell(CellsIn(contents[right])[i])]
             = [i \in 1..(LEAF_NODE_MAX_CELLS + 1 - SplitAt) |-> SplitAt + i]

(* C16: an insert that splits a full leaf (n = LEAF_NODE_MAX_CELLS cells)   *)
(* at s = (n + 1) / 2 leaves the first s cells in the old leaf and the      *)
(* other n - s, in order, in the new leaf, and stores the new row in the    *)
(* old leaf iff its key is <= the old leaf's key s - 1, so that no cell is  *)
(* lost or doubled; the insert that follows ascending inserts of            *)
(* 1..LEAF_NODE_MAX_CELLS into an empty database gives an internal root     *)
(* with the separator s over a leaf 1..s and a leaf s+1..n+1.               *)
C16_LeafSplitDividesTheCells ==
    [][\A k \in 1..MaxWideKey, v \in Vals :
          (Insert(k, v) /\ SplitsLeaf(k)) =>
              LET cells == CellsIn(Contents[SplitPage(k)])
                  first == SubSeq(cells, 1, SplitAt)
                  rest == SubSeq(cells, SplitAt + 1, LEAF_NODE_MAX_CELLS)
                  old_cells == CellsIn(Contents'[SplitPage(k)])
                  new_cells == CellsIn(Contents'[NewPage])
              IN /\ Returned
                 /\ last'.result = "EXECUTE_SUCCESS"
                 /\ IF k <= KeyOfCell(first[SplitAt])
                    THEN /\ old_cells = Placed(first, NewCell(k, v))
                         /\ new_cells = rest
                    ELSE /\ old_cells = first
                         /\ new_cells = Placed(rest, NewCell(k, v))
                 /\ (RootLeafIsFullAscending /\ k = LEAF_NODE_MAX_CELLS + 1)
                       => RootOverTwoHalves(root_page_num', Contents')]_vars

C16_Witness ==
    /\ phase = "open"
    /\ cmds = LEAF_NODE_MAX_CELLS + 1
    /\ last.op = "insert"
    /\ RootOverTwoHalves(root_page_num, Contents)
(***************************************************************************)
(* A build followed by a teardown.  In SpecCycle the client inserts the     *)
(* keys of a set K into the new database and then deletes every one of      *)
(* them; work.built[1] is num_pages at the end of that build, which is      *)
(* above 1 iff a leaf was split.                                            *)
(***************************************************************************)
InFirstTeardown ==
    /\ Len(work.built) = 1
    /\ work.built[1] > 1
    /\ last.op = "delete"

FirstTeardownDone ==
    /\ InFirstTeardown
    /\ phase = "open"
    /\ work.stage = "build"
    /\ Live = {}

(* C17: after inserts that split at least one leaf, every live key can be   *)
(* deleted, in any order: each delete returns Ok, and after the last one    *)
(* the tree is a single root leaf with zero cells, the validator passes     *)
(* and free_head is not 0.                                                  *)
C17_TeardownLeavesAnEmptyRootLeaf ==
    /\ InFirstTeardown =>
           phase = "open" /\ last.result = "EXECUTE_SUCCESS"
    /\ FirstTeardownDone =>
           /\ IsLeaf(root_page_num)
           /\ is_node_root(PageAt(root_page_num))
           /\ PageAt(root_page_num).num = 0
           /\ LET r == validate_tree(Cur) IN ~Faulted(r.st) /\ r.ok /\ r.sure
           /\ free_head # 0
(***************************************************************************)
(* The borrow from the right sibling.  A delete of k that finds its cell    *)
(* in a leaf that is not the root and leaves it below LEAF_NODE_MIN_CELLS   *)
(* borrows from the right sibling when the leaf is not the parent's right   *)
(* child and that sibling has more than LEAF_NODE_MIN_CELLS cells.          *)
(***************************************************************************)
DeletePage(k) == find_key_location(Cur, k).cursor.page_num

DeleteParent(k) == ParentOf(DeletePage(k))

ChildIndex(k) ==
    find_child_index_in_parent(PageAt(DeleteParent(k)), DeletePage(k))

RightSibling(k) == ChildAt(DeleteParent(k), ChildIndex(k) + 1)

BorrowsFromRight(k) ==
    LET loc == find_key_location(Cur, k)
        leaf == PageAt(DeletePage(k))
    IN /\ ~Faulted(loc.st)
       /\ loc.key_found
       /\ ~is_node_root(leaf)
       /\ leaf.num - 1 < LEAF_NODE_MIN_CELLS
       /\ ChildIndex(k) >= 0
       /\ ChildIndex(k) < PageAt(DeleteParent(k)).num
       /\ PageAt(RightSibling(k)).num > LEAF_NODE_MIN_CELLS

(* The cells of a leaf without the cell at index cell_num.                   *)
Without(cells, cell_num) ==
    [j \in 1..(Len(cells) - 1) |->
        IF j <= cell_num THEN cells[j] ELSE cells[j + 1]]

(* C18: when an underflowing leaf at child index i borrows from its right   *)
(* sibling, the sibling's first cell is appended to the leaf, the sibling's *)
(* other cells move left by one, and parent.key[i] then equals the new      *)
(* first key of the right sibling.                                          *)
C18_BorrowRightMovesTheFirstCell ==
    [][\A k \in 1..MaxWideKey :
          (Delete(k) /\ BorrowsFromRight(k)) =>
              LET cell_num == find_key_location(Cur, k).cursor.cell_num
                  leaf_cells == Without(CellsIn(Contents[DeletePage(k)]), cell_num)
                  sibling_cells == CellsIn(Contents[RightSibling(k)])
                  leaf_after == CellsIn(Contents'[DeletePage(k)])
                  sibling_after == CellsIn(Contents'[RightSibling(k)])
              IN /\ Returned
                 /\ last'.result = "EXECUTE_SUCCESS"
                 /\ leaf_after = Append(leaf_cells, sibling_cells[1])
                 /\ sibling_after = Tail(sibling_cells)
                 /\ RdW(Contents'[DeleteParent(k)],
                        get_internal_node_key(ChildIndex(k)))
                       = KeyOfCell(sibling_after[1])]_vars

(* The state after insert 1..4, delete 1, delete 2 at LEAF_NODE_MAX_CELLS   *)
(* = 3: the left leaf has borrowed key 3 and the separator is 4.            *)
C18_Witness ==
    /\ phase = "open"
    /\ last.op = "delete"
    /\ last.result = "EXECUTE_SUCCESS"
    /\ IsInternal(root_page_num)
    /\ PageAt(root_page_num).num = 1
    /\ LET left == ChildAt(root_page_num, 0)
           right == ChildAt(root_page_num, 1)
       IN /\ IsLeaf(left) /\ IsLeaf(right)
          /\ PageAt(left).num = LEAF_NODE_MIN_CELLS
          /\ PageAt(right).num >= LEAF_NODE_MIN_CELLS
          /\ KeyAt(root_page_num, 0) = SetMin(LeafKeys(right))
          /\ SetMax(LeafKeys(left)) < SetMin(LeafKeys(right))
(***************************************************************************)
(* The file after .exit.  The file is a header of DB_FILE_HEADER_SIZE bytes *)
(* followed by its pages, so its length follows from the pages it holds.    *)
(***************************************************************************)
FileBytes(f) == DB_FILE_HEADER_SIZE + PAGE_SIZE * Cardinality(DOMAIN f)

(* C19: after a completed close the file is DB_FILE_HEADER_SIZE + PAGE_SIZE *)
(* * num_pages bytes long, num_pages being the pager's count at the close,  *)
(* and its first 8 bytes hold the root_page_num and the free_head the pager *)
(* had at the close.                                                        *)
C19_ClosedFileHoldsEveryPage ==
    [][Close =>
          /\ FileBytes(file') = DB_FILE_HEADER_SIZE + PAGE_SIZE * num_pages
          /\ file_length' = FileBytes(file')
          /\ file_header' = [root_page_num |-> root_page_num,
                             free_head |-> free_head]]_vars

C19_Witness ==
    /\ phase = "closed"
    /\ FileBytes(file) > DB_FILE_HEADER_SIZE + PAGE_SIZE
    /\ file_header.root_page_num # 0
    /\ file_header.free_head # 0
(***************************************************************************)
(* The page cache.                                                         *)
(***************************************************************************)
Resident == DOMAIN page_cache

MissAtCapacity(p) ==
    /\ p \notin Resident
    /\ Cardinality(Resident) >= PAGER_CACHE_SIZE

(* C20: the page cache never holds more than PAGER_CACHE_SIZE pages, and a  *)
(* pager_get_page that misses with the cache at capacity removes exactly    *)
(* one page from it and then adds the page asked for.                       *)
C20_CacheStaysWithinItsSize ==
    /\ [](Cardinality(Resident) <= PAGER_CACHE_SIZE)
    /\ [][\A p \in FetchedPages :
             (Fetch(p) /\ MissAtCapacity(p)) =>
                 \E q \in Resident :
                     /\ q # p
                     /\ Resident' = (Resident \ {q}) \cup {p}]_vars

C20_Witness ==
    /\ phase = "open"
    /\ last.op = "get_page"
    /\ Cardinality(Resident) = PAGER_CACHE_SIZE
    /\ num_pages > PAGER_CACHE_SIZE
    /\ \E q \in 0..(num_pages - 1) : q \notin Resident

(* The page at the back of lru_list: of the resident pages, the one whose   *)
(* last pager_get_page is the oldest.                                       *)
Oldest == lru_list[Len(lru_list)]

(* lru_list names every resident page once.                                 *)
LruListsTheResidentPages ==
    /\ Len(lru_list) = Cardinality(Resident)
    /\ {lru_list[i] : i \in DOMAIN lru_list} = Resident

Hit(p) == p \in Resident

(* C21: a pager_get_page that hits puts the page in front of the recency    *)
(* order and leaves the resident pages, their contents and the file alone;  *)
(* one that misses at capacity evicts the page at the back of the order,    *)
(* after writing its contents at its offset in the file and nothing else;   *)
(* every get_page keeps the order of the other pages; and a page that is    *)
(* fetched again after its eviction comes back with the contents the file   *)
(* got at the eviction.                                                     *)
C21_LruOrderAndWriteBack ==
    /\ [](phase = "open" => LruListsTheResidentPages)
    /\ [][\A p \in FetchedPages : Fetch(p) =>
            /\ lru_list'[1] = p
            /\ Unlisted(lru_list', p) =
                  Unlisted(IF MissAtCapacity(p)
                           THEN SubSeq(lru_list, 1, Len(lru_list) - 1)
                           ELSE lru_list, p)
            /\ Hit(p) =>
                  /\ Resident' = Resident
                  /\ page_cache' = page_cache
                  /\ file' = file /\ file_length' = file_length
            /\ MissAtCapacity(p) =>
                  /\ Resident' = (Resident \ {Oldest}) \cup {p}
                  /\ Oldest \in DOMAIN file'
                  /\ file'[Oldest] = page_cache[Oldest]
                  /\ file_length' >= get_page_file_offset(Oldest) + PAGE_SIZE
                  /\ \A r \in DOMAIN file \ {Oldest} : file'[r] = file[r]
                  /\ \A r \in Resident \ {Oldest} : page_cache'[r] = page_cache[r]
            /\ (~Hit(p) /\ p < num_pages) =>
                  /\ p \in DOMAIN file
                  /\ page_cache'[p] = file[p]]_vars

(* Page 0, the root leaf, was evicted and has been fetched again.           *)
C21_Witness ==
    /\ phase = "open"
    /\ last.op = "get_page"
    /\ num_pages > PAGER_CACHE_SIZE
    /\ Cardinality(Resident) = PAGER_CACHE_SIZE
    /\ lru_list[1] = 0
    /\ 0 \in DOMAIN file
    /\ file[0].node_type = NODE_LEAF
    /\ page_cache[0] = file[0]
    /\ page_cache[0].is_root = 1

(* C22: between open and close the file is written only by an eviction, and *)
(* an eviction needs PAGER_CACHE_SIZE resident pages: a command that ends   *)
(* with fewer pages resident has evicted none and leaves the file as it was. *)
C22_OnlyEvictionWritesBeforeClose ==
    [][(/\ phase = "open" /\ phase' = "open"
        /\ Cardinality(Resident') < PAGER_CACHE_SIZE)
       => (file' = file /\ file_length' = file_length)]_vars

(* C23: pager_get_page of a page number at or above TABLE_MAX_PAGES returns *)
(* no page and leaves the cache, the recency order, num_pages, free_head,   *)
(* root_page_num and the file as they were.                                 *)
C23_OutOfBoundsFetchChangesNothing ==
    [][\A p \in OutOfBounds : Fetch(p) =>
          /\ last'.result = "nullptr"
          /\ page_cache' = page_cache
          /\ lru_list' = lru_list
          /\ num_pages' = num_pages
          /\ free_head' = free_head
          /\ root_page_num' = root_page_num
          /\ file' = file
          /\ file_length' = file_length
          /\ file_header' = file_header]_vars

(* The refused call came with the cache full and pages evicted.             *)
C23_Witness ==
    /\ phase = "open"
    /\ last = [op |-> "get_page", result |-> "nullptr"]
    /\ Cardinality(Resident) = PAGER_CACHE_SIZE
    /\ num_pages > PAGER_CACHE_SIZE
    /\ 0 \notin Resident

(***************************************************************************)
(* Leaf merges. handle_leaf_underflow merges when neither sibling has more  *)
(* than LEAF_NODE_MIN_CELLS cells: into the left sibling when the leaf has  *)
(* one (child_index > 0), with the right sibling otherwise.                 *)
(***************************************************************************)
(* The children of an internal page: cells 0..num_keys-1, then right_child. *)
ChildList(pg) ==
    [i \in 1..(Min2(pg.num, InternalCellsInPage) + 1) |->
        IF i <= Min2(pg.num, InternalCellsInPage)
        THEN RdW(pg, get_internal_node_child(i - 1))
        ELSE pg.link]

ListWithout(children, page_num) ==
    SelectSeq(children, LAMBDA c : c # page_num)

(* delete k leaves its leaf, not the root, below LEAF_NODE_MIN_CELLS.       *)
Underflows(k) ==
    LET loc == find_key_location(Cur, k)
        leaf == PageAt(DeletePage(k))
    IN /\ ~Faulted(loc.st)
       /\ loc.key_found
       /\ ~is_node_root(leaf)
       /\ leaf.num - 1 < LEAF_NODE_MIN_CELLS
       /\ ChildIndex(k) >= 0

LeftSibling(k) == ChildAt(DeleteParent(k), ChildIndex(k) - 1)

CanBorrow(k) ==
    \/ /\ ChildIndex(k) < PageAt(DeleteParent(k)).num
       /\ PageAt(RightSibling(k)).num > LEAF_NODE_MIN_CELLS
    \/ /\ ChildIndex(k) > 0
       /\ PageAt(LeftSibling(k)).num > LEAF_NODE_MIN_CELLS

MergesLeft(k) == Underflows(k) /\ ~CanBorrow(k) /\ ChildIndex(k) > 0

MergesRight(k) == Underflows(k) /\ ~CanBorrow(k) /\ ChildIndex(k) = 0

(* The parent is the root and the merge takes its only key.                 *)
CollapsesRoot(k) ==
    /\ is_node_root(PageAt(DeleteParent(k)))
    /\ PageAt(DeleteParent(k)).num = 1

(* C24: when an underflowing leaf merges into its left sibling and the      *)
(* parent stays in the tree, the parent's children afterwards are its       *)
(* children before without the absorbed leaf, in the same order, it has one *)
(* key less, and if the absorbed leaf was its right child the surviving     *)
(* left sibling is its right child.                                         *)
C24_MergeLeftRemovesTheAbsorbedChild ==
    [][\A k \in 1..MaxWideKey :
          (Delete(k) /\ MergesLeft(k) /\ ~CollapsesRoot(k)) =>
              LET parent == DeleteParent(k)
                  before == Contents[parent]
                  after == Contents'[parent]
              IN /\ Returned
                 /\ ChildList(after) = ListWithout(ChildList(before), DeletePage(k))
                 /\ after.num = before.num - 1
                 /\ ChildIndex(k) = before.num => after.link = LeftSibling(k)]_vars

(* The leaf's immediate right neighbour in the parent.                      *)
RightNeighbour(k) == ChildList(PageAt(DeleteParent(k)))[ChildIndex(k) + 2]

(* C25: when an underflowing leftmost leaf merges with its right sibling,   *)
(* the page absorbed and freed is the leaf's immediate right neighbour in   *)
(* the parent, which is the right child when the parent has one key, and a  *)
(* parent that stays in the tree has afterwards the children it had before  *)
(* without that page, in the same order.                                    *)
C25_MergeRightAbsorbsTheRightNeighbour ==
    [][\A k \in 1..MaxWideKey :
          (Delete(k) /\ MergesRight(k)) =>
              LET parent == DeleteParent(k)
                  cell_num == find_key_location(Cur, k).cursor.cell_num
                  leaf_cells == Without(CellsIn(Contents[DeletePage(k)]), cell_num)
                  before == Contents[parent]
                  after == Contents'[parent]
              IN /\ Returned
                 /\ CellsIn(Contents'[DeletePage(k)])
                       = leaf_cells \o CellsIn(Contents[RightNeighbour(k)])
                 /\ free_head' = RightNeighbour(k)
                 /\ ~CollapsesRoot(k) =>
                       /\ ChildList(after)
                             = ListWithout(ChildList(before), RightNeighbour(k))
                       /\ after.num = before.num - 1]_vars

(* The child that is left when the merge of delete k takes the root's only  *)
(* key: the left sibling that absorbed the leaf, or the leaf that absorbed  *)
(* its right sibling.                                                       *)
SoleChild(k) == IF MergesLeft(k) THEN LeftSibling(k) ELSE DeletePage(k)

(* C26: when a merge leaves an internal root without keys, its sole child   *)
(* becomes the root, with root_page_num naming it and its root flag set,    *)
(* and the old root page is on the free chain.                              *)
C26_CollapsedRootIsFreed ==
    [][\A k \in 1..MaxWideKey :
          (/\ Delete(k)
           /\ MergesLeft(k) \/ MergesRight(k)
           /\ CollapsesRoot(k)) =>
              /\ Returned
              /\ root_page_num' = SoleChild(k)
              /\ is_node_root(Contents'[SoleChild(k)])
              /\ DeleteParent(k) \in FreeChain']_vars

(* C27: no command calls get_internal_node_child with child_num above the   *)
(* node's num_keys: no command ends in the use of the nullptr that call     *)
(* returns.                                                                 *)
C27_NoChildBeyondNumKeys == last.result # "null_deref"

(***************************************************************************)
(* Internal nodes: insert and split.                                       *)
(***************************************************************************)
(* The internal node above the leaf that insert k splits.                   *)
SplitParent(k) == ParentOf(SplitPage(k))

(* insert k splits a leaf whose parent has INTERNAL_NODE_MAX_KEYS keys.     *)
SplitsInternal(k) ==
    /\ SplitsLeaf(k)
    /\ ~is_node_root(PageAt(SplitPage(k)))
    /\ PageAt(SplitParent(k)).num = INTERNAL_NODE_MAX_KEYS

(* The page the new internal node gets: the one allocated after the new     *)
(* leaf's.                                                                  *)
NewInternalPage == get_unused_page_num(get_unused_page_num(Cur).st).page_num

(* children with new_child behind the child page_num: the new leaf holds    *)
(* the upper half of the leaf it was split from.                            *)
WithChildBehind(children, page_num, new_child) ==
    LET at == CHOOSE i \in DOMAIN children : children[i] = page_num
    IN SubSeq(children, 1, at) \o <<new_child>>
          \o SubSeq(children, at + 1, Len(children))

ParentIs(contents, children, page_num) ==
    \A i \in DOMAIN children :
        /\ children[i] \in PageNums
        /\ contents[children[i]].parent = page_num

(* C29: an insert that splits a full internal node of n keys leaves, with   *)
(* s = (n + 1) / 2, s keys and the children 0..s of the combined sequence   *)
(* in the old node and n - s keys and the children s+1..n+1 in the new one, *)
(* and every child names the node that holds it as its parent.              *)
C29_InternalSplitDividesTheChildren ==
    [][\A k \in DeepKeys :
          (Grow(k) /\ SplitsInternal(k)) =>
              LET n == INTERNAL_NODE_MAX_KEYS
                  s == (n + 1) \div 2
                  combined == WithChildBehind(
                                 ChildList(Contents[SplitParent(k)]),
                                 SplitPage(k), NewPage)
                  old_node == Contents'[SplitParent(k)]
                  new_node == Contents'[NewInternalPage]
              IN /\ Returned
                 /\ old_node.num = s
                 /\ ChildList(old_node) = SubSeq(combined, 1, s + 1)
                 /\ ParentIs(Contents', ChildList(old_node), SplitParent(k))
                 /\ get_node_type(new_node) = NODE_INTERNAL
                 /\ ParentIs(Contents', ChildList(new_node), NewInternalPage)
                 /\ new_node.num = n - s
                 /\ ChildList(new_node) = SubSeq(combined, s + 2, n + 2)]_vars

(***************************************************************************)
(* Buffers across evictions                                                *)
(***************************************************************************)

(* C28: within one command no page buffer obtained from get_page is read   *)
(* or written after a later get_page of the same command has evicted that  *)
(* page: no command ends by using an evicted buffer, in particular not in  *)
(* the reparenting loops of an internal split.                             *)
C28_NoBufferUsedAfterItsEviction == last.result # "evicted_buffer"

(***************************************************************************)
(* internal_node_insert into a parent with room.  The callers of the model *)
(* are the leaf splits: the new child is the new leaf, which holds the     *)
(* upper half of the leaf that split.                                      *)
(***************************************************************************)

(* insert k splits a leaf whose parent has room for one more key.           *)
InsertsIntoParent(k) ==
    /\ SplitsLeaf(k)
    /\ ~is_node_root(PageAt(SplitPage(k)))
    /\ PageAt(SplitParent(k)).num < INTERNAL_NODE_MAX_KEYS

(* get_node_max_key of a leaf.                                              *)
LastKeyOf(pg) == IF pg.num = 0 THEN 0 ELSE RdW(pg, get_leaf_node_key(pg.num - 1))

(* At the call of internal_node_insert the new leaf holds the cells from    *)
(* SplitAt on of the leaf that split, which keeps the cells below; the row  *)
(* is placed after the call.                                                *)
NewChildMax(k) == LastKeyOf(PageAt(SplitPage(k)))

RightChildMax(k) ==
    LET right_child == PageAt(SplitParent(k)).link
    IN IF right_child = SplitPage(k)
       THEN RdW(PageAt(right_child), get_leaf_node_key(SplitAt - 1))
       ELSE LastKeyOf(PageAt(right_child))

OrderedByMaxKey(contents, children) ==
    \A i, j \in DOMAIN children :
        i < j => /\ children[i] \in PageNums
                 /\ children[j] \in PageNums
                 /\ LastKeyOf(contents[children[i]])
                       < LastKeyOf(contents[children[j]])

(* C30: internal_node_insert into a parent with fewer than                  *)
(* INTERNAL_NODE_MAX_KEYS keys gives it one key more, keeps every child it  *)
(* had and adds the new one, and leaves the children in the order of their  *)
(* maximum keys; when the new child's maximum is above the right child's,   *)
(* the old right child is in the cell of the old num_keys with its maximum  *)
(* as the key and the new child is the right child.                         *)
C30_InsertIntoParentKeepsTheOrder ==
    [][\A k \in 1..MaxWideKey :
          (Insert(k, 1) /\ InsertsIntoParent(k)) =>
              LET before == Contents[SplitParent(k)]
                  after == Contents'[SplitParent(k)]
                  had == ChildList(before)
                  has == ChildList(after)
              IN /\ Returned
                 /\ after.num = before.num + 1
                 /\ \A i \in DOMAIN had : \E j \in DOMAIN has : has[j] = had[i]
                 /\ \E j \in DOMAIN has : has[j] = NewPage
                 /\ OrderedByMaxKey(Contents', has)
                 /\ NewChildMax(k) > RightChildMax(k) =>
                       /\ after.link = NewPage
                       /\ has[before.num + 1] = before.link
                       /\ RdW(after, get_internal_node_key(before.num))
                             = LastKeyOf(Contents'[before.link])]_vars

(***************************************************************************)
(* The order of the remedies of a leaf underflow.                          *)
(***************************************************************************)

(* The state in which leaf_node_delete calls handle_leaf_underflow: the    *)
(* cell of k is removed from its leaf.                                      *)
AfterRemoval(k) ==
    LET loc == find_key_location(Cur, k)
        p == loc.cursor.page_num
        s == pager_get_page(loc.st, p)
        num_cells == PageOf(s, p).num
    IN SetNum(ShiftCellsLeft(s, p, loc.cursor.cell_num, Sub32(num_cells, 1)),
              p, Sub32(num_cells, 1))

(* The leaf of k has a sibling: its parent has a key.                       *)
HasSibling(k) == PageAt(DeleteParent(k)).num >= 1

(* The one remedy the order gives: borrow from the right sibling, else from *)
(* the left one, else merge into the left one, else merge with the right    *)
(* one.                                                                     *)
Remedy(k) ==
    LET leaf == DeletePage(k)
        parent == DeleteParent(k)
        i == ChildIndex(k)
        n == PageAt(parent).num
        right == RightSibling(k)
        left == LeftSibling(k)
        s2 == pager_get_page(pager_get_page(AfterRemoval(k), leaf), parent)
        s3 == IF i < n THEN pager_get_page(s2, right) ELSE s2
        s4 == pager_get_page(s3, left)
    IN IF i < n /\ PageAt(right).num > LEAF_NODE_MIN_CELLS
       THEN LeafBorrowRight(s3, leaf, parent, i, right)
       ELSE IF i > 0 /\ PageAt(left).num > LEAF_NODE_MIN_CELLS
       THEN LeafBorrowLeft(s4, leaf, parent, i, left)
       ELSE IF i > 0
       THEN LeafMergeLeft(s4, leaf, parent, i, left)
       ELSE LeafMergeRight(s3, leaf, parent, i)

LeafKeysIncrease ==
    \A p \in Reachable :
        IsLeaf(p) =>
            \A i, j \in 0..(CellsOf(p) - 1) :
                i < j => RdW(PageAt(p), get_leaf_node_key(i))
                            < RdW(PageAt(p), get_leaf_node_key(j))

(* The depths at which leaves lie below page p.                             *)
RECURSIVE LeafDepths(_, _)
LeafDepths(p, path) ==
    IF p \in path THEN {}
    ELSE IF IsLeaf(p) THEN {0}
    ELSE {d + 1 : d \in UNION {LeafDepths(c, path \cup {p}) : c \in ChildPages(p)}}

(* Invariant 3: every leaf lies at the same depth.                          *)
UniformLeafDepth == Cardinality(LeafDepths(root_page_num, {})) <= 1

(* Invariant 4: every node but the root holds its minimum.                  *)
MinimumOccupancy ==
    \A p \in Reachable \ {root_page_num} :
        PageAt(p).num >= IF IsLeaf(p) THEN LEAF_NODE_MIN_CELLS
                         ELSE INTERNAL_NODE_MIN_KEYS

(* C32: when the validator reports success on the tree, the leaf keys       *)
(* increase strictly, every separator is the maximum of its child with the  *)
(* child ranges disjoint and in order, the leaves lie at one depth, every   *)
(* node but the root holds its minimum, every node but the root names its   *)
(* holder as parent_page, and the next_leaf chain visits every leaf once in *)
(* key order.                                                               *)
C32_ValidTreeSatisfiesTheInvariants ==
    (phase = "open" /\ ~Faulted(validate_tree(Cur).st) /\ validate_tree(Cur).ok) =>
        /\ LeafKeysIncrease
        /\ C11_SeparatorsAreChildMaxima
        /\ UniformLeafDepth
        /\ MinimumOccupancy
        /\ C15_ParentPointersNameTheHolder
        /\ C14_LeafChainIsTheReachableLeaves

(***************************************************************************)
(* Freeing and allocating.                                                 *)
(***************************************************************************)

(* The page a merge passes to free_page: the leaf itself when it merges     *)
(* into its left sibling, the page it read as its right sibling otherwise.  *)
FreedPage(k) ==
    IF ChildIndex(k) > 0 THEN DeletePage(k)
    ELSE RdW(PageAt(DeleteParent(k)), get_internal_node_child(ChildIndex(k) + 1))

(* C33: the allocation that follows free_page(p) returns p with its buffer  *)
(* zeroed and sets free_head back to what it was before the free, the one   *)
(* after it returns the page freed before p, and with free_head = 0 the     *)
(* allocation returns num_pages and makes num_pages one more.               *)
C33_AllocationUndoesTheFree ==
    [][/\ free_head = 0 =>
             /\ get_unused_page_num(Cur).page_num = num_pages
             /\ get_unused_page_num(Cur).st.num_pages = num_pages + 1
       /\ \A k \in 1..MaxWideKey :
             (/\ Delete(k)
              /\ Underflows(k) /\ HasSibling(k) /\ ~CanBorrow(k)
              /\ Returned) =>
                 LET a == get_unused_page_num(Cur')
                 IN /\ a.page_num = FreedPage(k)
                    /\ PageOf(a.st, FreedPage(k)) = ZeroPage
                    /\ a.st.free_head = free_head
                    /\ free_head # 0 =>
                          get_unused_page_num(a.st).page_num = free_head]_vars

(***************************************************************************)
(* validate_free_chain.                                                    *)
(***************************************************************************)

(* The chain from page p ends at 0 without a page seen before, without a    *)
(* page number from TABLE_MAX_PAGES on, and within num_pages pages.         *)
RECURSIVE ChainIsSound(_, _)
ChainIsSound(p, seen) ==
    IF p = 0 THEN TRUE
    ELSE IF p >= TABLE_MAX_PAGES \/ p \in seen THEN FALSE
    ELSE IF Cardinality(seen) + 1 > num_pages THEN FALSE
    ELSE ChainIsSound(First4(ContentAt(page_cache, file, p)), seen \cup {p})

(* C34: validate_free_chain returns false when the free chain visits a page *)
(* twice, holds a page number from TABLE_MAX_PAGES on or is longer than     *)
(* num_pages was at the call, true otherwise, and leaves free_head,         *)
(* root_page_num and num_pages as they were.                                *)
C34_FreeChainValidationIsExactAndQuiet ==
    phase = "open" =>
        LET r == validate_free_chain(Cur)
        IN /\ ~Faulted(r.st)
           /\ r.ok = ChainIsSound(free_head, {})
           /\ r.st.free_head = free_head
           /\ r.st.root_page_num = root_page_num
           /\ r.st.num_pages = num_pages

(***************************************************************************)
(* C35. An insert that needs a new page when the page number to allocate   *)
(* is TABLE_MAX_PAGES or more does not report success and leaves the tree  *)
(* as it was: the resident pages (cells and leaf chain), the root and      *)
(* num_pages are unchanged.                                                *)
(***************************************************************************)
(* The page for the new leaf, or the page for the new root above a root     *)
(* leaf, is refused by the pager.                                           *)
AllocationFails ==
    /\ free_head = 0
    /\ \/ num_pages >= TABLE_MAX_PAGES
       \/ num_pages + 1 >= TABLE_MAX_PAGES /\ IsLeaf(root_page_num)

(* C35: an insert that splits a leaf when the page to allocate is refused   *)
(* does not report EXECUTE_SUCCESS and leaves the pages, root_page_num and  *)
(* num_pages as they were.                                                  *)
C35_FailedAllocationLeavesTheTree ==
    [][\A k \in 1..MaxWideKey :
          (InsertFrom(Cur, k, 1) /\ SplitsLeaf(k) /\ AllocationFails)
             => /\ last'.result # "EXECUTE_SUCCESS"
                /\ ContentsUnchanged
                /\ root_page_num' = root_page_num
                /\ num_pages' = num_pages]_vars

(***************************************************************************)
(* C36. A range command whose start key is above its end key returns a     *)
(* result other than EXECUTE_SUCCESS, outputs no rows and leaves the pages *)
(* and the pager as they were.                                             *)
(***************************************************************************)
C36_InvertedRangeIsAnError ==
    [][\A lo \in Keys, hi \in Keys :
          (Range(lo, hi) /\ lo > hi)
             => /\ last'.result # "EXECUTE_SUCCESS"
                /\ execute_range(Cur, lo, hi).rows = <<>>
                /\ ContentsUnchanged
                /\ PagerUnchanged]_vars

(***************************************************************************)
(* C37. After the split of a leaf that is not the root, each key its       *)
(* parent stores for the old leaf or for the new leaf is at least the      *)
(* largest key of that leaf, the inserted key counted.                     *)
(***************************************************************************)
(* The keys the parent of leaf stores for it cover its largest key.        *)
SeparatorCovers(contents, leaf) ==
    LET parent == contents[leaf].parent
    IN (leaf \in PageNums /\ parent \in PageNums) =>
          \A i \in 0..(INTERNAL_NODE_MAX_KEYS - 1) :
              (/\ i < contents[parent].num
               /\ RdW(contents[parent], get_internal_node_child(i)) = leaf)
                 => RdW(contents[parent], get_internal_node_key(i))
                       >= LastKeyOf(contents[leaf])

(* C37: after an insert that splits a leaf other than the root, the keys    *)
(* the parent stores for the old leaf and for the new leaf are at least the *)
(* largest key of that leaf, the inserted key included.                     *)
C37_SplitSeparatorsCoverTheNewKey ==
    [][\A k \in 1..MaxWideKey :
          (/\ Insert(k, 1)
           /\ SplitsLeaf(k)
           /\ ~is_node_root(PageAt(SplitPage(k)))
           /\ Returned)
             => /\ SeparatorCovers(Contents', SplitPage(k))
                /\ SeparatorCovers(Contents', NewPage)]_vars

(***************************************************************************)
(* C38. The cursor of table_find(key) has end_of_table set only when no    *)
(* live key at or above key is in the table; a cursor past the last cell   *)
(* of a leaf with a next leaf does not have it set, so that the scan loop  *)
(* goes on into the next leaf.                                             *)
(***************************************************************************)
C38_EndOfTableOnlyPastTheLastKey ==
    phase = "open" =>
        \A key \in Keys :
            LET c == table_find(Cur, key)
                leaf == PageOf(c.st, c.cursor.page_num)
            IN ~Faulted(c.st) =>
                  /\ c.cursor.end_of_table => ~(\E k \in Live : k >= key)
                  /\ (c.cursor.cell_num >= leaf.num /\ leaf.link # 0)
                        => ~c.cursor.end_of_table

(***************************************************************************)
(* C39. Page 0 is never given to free_page and stays reachable from the    *)
(* root after every command. (As a link, 0 ends the leaf chain and the     *)
(* free chain, so page 0 is a member of neither unless it was freed.)      *)
(***************************************************************************)
C39_PageZeroStaysInTheTree ==
    [][/\ \A k \in 1..MaxWideKey :
             (/\ Delete(k)
              /\ Underflows(k) /\ HasSibling(k) /\ ~CanBorrow(k)
              /\ Returned) => FreedPage(k) # 0
       /\ Returned => (0 \in Reachable)']_vars

(***************************************************************************)
(* C40. In every state of the pager page_cache, lru_map and lru_list hold  *)
(* the same pages, lru_list holds none twice, and lru_map gives for each   *)
(* page the position at which lru_list holds it.                           *)
(***************************************************************************)
C40_CacheStructuresAgree ==
    /\ DOMAIN lru_map = DOMAIN page_cache
    /\ {lru_list[i] : i \in DOMAIN lru_list} = DOMAIN page_cache
    /\ \A i, j \in DOMAIN lru_list : i # j => lru_list[i] # lru_list[j]
    /\ \A p \in DOMAIN lru_map :
          lru_map[p] \in DOMAIN lru_list /\ lru_list[lru_map[p]] = p

(* A full cache after evictions, with a page other than the last fetched    *)
(* back in front by a hit.                                                  *)
C40_Witness ==
    /\ phase = "open"
    /\ last.op = "get_page"
    /\ num_pages > PAGER_CACHE_SIZE + 1
    /\ Cardinality(DOMAIN page_cache) = PAGER_CACHE_SIZE
    /\ 0 \in DOMAIN page_cache
    /\ lru_list[1] = num_pages - 1
    /\ lru_list[2] = 0
    /\ lru_map[0] = 2
====
